---- MODULE Spec2Model ----
(***************************************************************************)
(* mgit: several Git identities on one machine.                            *)
(*                                                                         *)
(* The model follows src/src/account_manager.py (the account store),       *)
(* src/src/ssh_manager.py (key files and the marker-delimited blocks of    *)
(* ~/.ssh/config), src/src/git_config_manager.py (global and local Git     *)
(* config) and src/src/profile_manager.py (the add / remove / switch       *)
(* workflows).  Python strings are TLA+ strings; a text file is the        *)
(* sequence of its lines, i.e. content.split("\n").                        *)
(***************************************************************************)
EXTENDS Integers, Sequences, FiniteSets, TLC

VARIABLES
    accounts,      \* AccountManager.accounts: the dict, in insertion order
    config_file,   \* ~/.mgit/config.yaml: the persisted document
    ssh_config,    \* ~/.ssh/config: existence, lines and permission bits
    ssh_dir,       \* ~/.ssh: the names of the key files present
    git_global,    \* the global Git config (~/.gitconfig)
    repos,         \* the local Git config of every working tree
    fragments,     \* <workspace>/.gitconfig files written by conditional includes
    last,          \* the last call: operation, arguments, outcome
    e2e,           \* position and inputs of the end-to-end scenario
    procs          \* the concurrent invocations of the tool: position and memory of each

vars == <<accounts, config_file, ssh_config, ssh_dir, git_global, repos, fragments, last, e2e,
          procs>>

----------------------------------------------------------------------------
(* Strings *)

\* Python's None; str(None) is "None"
None == "<None>"

Str(x) == IF x = None THEN "None" ELSE x

\* the character at position i (1-based)
CharAt(s, i) == SubSeq(s, i, i)

\* Python's `t in s` for strings
Contains(s, t) ==
    \E i \in 1..(Len(s) - Len(t) + 1) : SubSeq(s, i, i + Len(t) - 1) = t

\* s.startswith(t)
StartsWith(s, t) == Len(s) >= Len(t) /\ SubSeq(s, 1, Len(t)) = t

\* s.replace(old, new) for a non-empty old: every occurrence, from the left
RECURSIVE Replace(_, _, _)
Replace(s, old, new) ==
    IF s = "" THEN ""
    ELSE IF StartsWith(s, old) THEN new \o Replace(SubSeq(s, Len(old) + 1, Len(s)), old, new)
    ELSE CharAt(s, 1) \o Replace(SubSeq(s, 2, Len(s)), old, new)

\* the part of s after the last character of s that is in seps (all of s when
\* there is none); s.split("/")[-1] is AfterLast(s, {"/"})
AfterLast(s, seps) ==
    LET cut == {i \in 1..Len(s) : CharAt(s, i) \in seps}
    IN  IF cut = {} THEN s
        ELSE SubSeq(s, (CHOOSE i \in cut : \A j \in cut : j <= i) + 1, Len(s))

Lower == {"a","b","c","d","e","f","g","h","i","j","k","l","m",
          "n","o","p","q","r","s","t","u","v","w","x","y","z"}

Upper == {"A","B","C","D","E","F","G","H","I","J","K","L","M",
          "N","O","P","Q","R","S","T","U","V","W","X","Y","Z"}

Digit == {"0","1","2","3","4","5","6","7","8","9"}

AllIn(s, from, to, class) == \A i \in from..to : CharAt(s, i) \in class

\* re.match(r'^[a-zA-Z0-9._%+-]+@[a-zA-Z0-9.-]+\.[a-zA-Z]{2,}$', email),
\* for strings without a newline
validate_email(email) ==
    \E at \in 2..Len(email) : \E dot \in (at + 2)..(Len(email) - 2) :
        /\ AllIn(email, 1, at - 1, Lower \cup Upper \cup Digit \cup {".", "_", "%", "+", "-"})
        /\ CharAt(email, at) = "@"
        /\ AllIn(email, at + 1, dot - 1, Lower \cup Upper \cup Digit \cup {".", "-"})
        /\ CharAt(email, dot) = "."
        /\ AllIn(email, dot + 1, Len(email), Lower \cup Upper)

\* re.match(r'^[a-zA-Z0-9_-]+$', name), for strings without a newline
validate_account_name(name) ==
    /\ Len(name) >= 1
    /\ AllIn(name, 1, Len(name), Lower \cup Upper \cup Digit \cup {"_", "-"})

----------------------------------------------------------------------------
(* Account store: account_manager.py *)

\* Account.__init__
Account(name, git_username, git_email, provider, host_alias, ssh_key_path, signing_key, custom_host, is_default) ==
    [name |-> name, git_username |-> git_username, git_email |-> git_email,
     provider |-> provider, host_alias |-> host_alias, ssh_key_path |-> ssh_key_path,
     signing_key |-> signing_key, custom_host |-> custom_host, is_default |-> is_default]

\* Account.to_dict
to_dict(acct) ==
    [name |-> acct.name, git_username |-> acct.git_username, git_email |-> acct.git_email,
     provider |-> acct.provider, host_alias |-> acct.host_alias,
     ssh_key_path |-> acct.ssh_key_path, signing_key |-> acct.signing_key,
     custom_host |-> acct.custom_host, is_default |-> acct.is_default]

\* the parameters of Account.__init__ and those without a default value
AccountParams ==
    {"name", "git_username", "git_email", "provider", "host_alias", "ssh_key_path",
     "signing_key", "custom_host", "is_default"}

RequiredParams == {"name", "git_username", "git_email", "provider", "host_alias", "ssh_key_path"}

\* the keyword argument k of cls(**data), or the parameter's default
Kwarg(data, k, default) == IF k \in DOMAIN data THEN data[k] ELSE default

\* A mutant of from_dict: the default flag is not passed on
from_dict_drops_is_default(data) ==
    IF ~(DOMAIN data \subseteq AccountParams) \/ ~(RequiredParams \subseteq DOMAIN data)
    THEN [error |-> "TypeError"]
    ELSE Account(data["name"], data["git_username"], data["git_email"], data["provider"],
                 data["host_alias"], data["ssh_key_path"], Kwarg(data, "signing_key", None),
                 Kwarg(data, "custom_host", None), FALSE)

\* Account.from_dict: cls(**data) binds the keys of data to the parameters of
\* __init__; an unknown key or a missing required one is a TypeError
\* (a record holding the error instead of an Account)
from_dict(data) ==
    IF ~(DOMAIN data \subseteq AccountParams) \/ ~(RequiredParams \subseteq DOMAIN data)
    THEN [error |-> "TypeError"]
    ELSE Account(data["name"], data["git_username"], data["git_email"], data["provider"],
                 data["host_alias"], data["ssh_key_path"], Kwarg(data, "signing_key", None),
                 Kwarg(data, "custom_host", None), Kwarg(data, "is_default", FALSE))

\* the dict self.accounts is a sequence of entries [key, acct] in insertion order
Keys(accts) == {accts[i].key : i \in 1..Len(accts)}

IndexOf(accts, name) == CHOOSE i \in 1..Len(accts) : accts[i].key = name

\* AccountManager.get_account: self.accounts.get(name); the entry's position, 0 for None
get_account(accts, name) == IF name \in Keys(accts) THEN IndexOf(accts, name) ELSE 0

\* AccountManager._save: the document written to config.yaml
SaveDoc(accts) ==
    [exists |-> TRUE, version |-> "1.0",
     accounts |-> [k \in Keys(accts) |-> to_dict(accts[IndexOf(accts, k)].acct)]]

\* for acct in self.accounts.values(): acct.is_default = False
ClearDefaults(accts) ==
    [i \in 1..Len(accts) |-> [accts[i] EXCEPT !.acct.is_default = FALSE]]

\* the characters of an account name in code point order
CodePoints == "-0123456789ABCDEFGHIJKLMNOPQRSTUVWXYZ_abcdefghijklmnopqrstuvwxyz"

\* ord(c), up to an order-preserving renumbering
Ord(c) == CHOOSE i \in 1..Len(CodePoints) : CharAt(CodePoints, i) = c

\* Python's s < t for strings: the first differing character decides, a proper
\* prefix is smaller
RECURSIVE StrLess(_, _)
StrLess(s, t) ==
    IF t = "" THEN FALSE
    ELSE IF s = "" THEN TRUE
    ELSE IF CharAt(s, 1) # CharAt(t, 1) THEN Ord(CharAt(s, 1)) < Ord(CharAt(t, 1))
    ELSE StrLess(SubSeq(s, 2, Len(s)), SubSeq(t, 2, Len(t)))

\* sorted(keys): yaml.dump writes the keys of a mapping in sorted order
RECURSIVE SortedKeys(_)
SortedKeys(S) ==
    IF S = {} THEN <<>>
    ELSE LET m == CHOOSE x \in S : \A y \in S \ {x} : StrLess(x, y)
         IN  <<m>> \o SortedKeys(S \ {m})

\* AccountManager._load of a well-formed document: the dict is filled in the
\* order in which the keys stand in the document
_load(file) ==
    IF ~file.exists THEN <<>>
    ELSE LET keys == SortedKeys(DOMAIN file.accounts)
         IN  [i \in 1..Len(keys) |->
                 [key |-> keys[i], acct |-> from_dict(file.accounts[keys[i]])]]

\* yaml.safe_load raises YAMLError: the file holds text that is no YAML, kept
\* in the field raw instead of the parsed version and accounts
YamlError(file) == file.exists /\ "raw" \in DOMAIN file

\* AccountManager.__init__: self.accounts = {} and self._load().  _load
\* catches yaml.YAMLError only, prints the error and leaves the store empty;
\* the TypeError of Account.from_dict for a record with a missing or unknown
\* key is not caught and ends the constructor.  Nothing is written.
AccountManager(file) ==
    IF ~file.exists THEN [accounts |-> <<>>, result |-> "ok", warned |-> FALSE]
    ELSE IF YamlError(file) THEN [accounts |-> <<>>, result |-> "ok", warned |-> TRUE]
    ELSE LET loaded == _load(file)
         IN  IF \E i \in 1..Len(loaded) : "error" \in DOMAIN loaded[i].acct
             THEN [accounts |-> <<>>, result |-> "TypeError", warned |-> FALSE]
             ELSE [accounts |-> loaded, result |-> "ok", warned |-> FALSE]

\* A mutant of add_account: the document is read again and the accounts it
\* holds that are not in memory are kept when saving
add_account_merges_document(accts, file, a) ==
    IF ~validate_account_name(a.name) \/ ~validate_email(a.git_email) \/ a.name \in Keys(accts)
    THEN [accounts |-> accts, config_file |-> file, result |-> "ValueError"]
    ELSE LET is_default == IF accts = <<>> THEN TRUE ELSE a.is_default
             cleared == IF is_default THEN ClearDefaults(accts) ELSE accts
             new == Append(cleared,
                        [key |-> a.name,
                         acct |-> Account(a.name, a.git_username, a.git_email, a.provider,
                                          a.host_alias, a.ssh_key_path, a.signing_key,
                                          a.custom_host, is_default)])
             merged == new \o SelectSeq(_load(file), LAMBDA e : e.key \notin Keys(new))
         IN  [accounts |-> merged, config_file |-> SaveDoc(merged), result |-> "ok"]

\* A mutant of add_account: the old default is not cleared
add_account_keeps_old_default(accts, file, a) ==
    IF ~validate_account_name(a.name) \/ ~validate_email(a.git_email) \/ a.name \in Keys(accts)
    THEN [accounts |-> accts, config_file |-> file, result |-> "ValueError"]
    ELSE LET is_default == IF accts = <<>> THEN TRUE ELSE a.is_default
             new == Append(accts,
                        [key |-> a.name,
                         acct |-> Account(a.name, a.git_username, a.git_email, a.provider,
                                          a.host_alias, a.ssh_key_path, a.signing_key,
                                          a.custom_host, is_default)])
         IN  [accounts |-> new, config_file |-> SaveDoc(new), result |-> "ok"]

\* A mutant of add_account: the first account is not forced to be the default
add_account_first_not_forced(accts, file, a) ==
    IF ~validate_account_name(a.name) \/ ~validate_email(a.git_email) \/ a.name \in Keys(accts)
    THEN [accounts |-> accts, config_file |-> file, result |-> "ValueError"]
    ELSE LET cleared == IF a.is_default THEN ClearDefaults(accts) ELSE accts
             new == Append(cleared,
                        [key |-> a.name,
                         acct |-> Account(a.name, a.git_username, a.git_email, a.provider,
                                          a.host_alias, a.ssh_key_path, a.signing_key,
                                          a.custom_host, a.is_default)])
         IN  [accounts |-> new, config_file |-> SaveDoc(new), result |-> "ok"]

\* A mutant of add_account: the old default is cleared before the duplicate check
add_account_clears_before_check(accts, file, a) ==
    IF ~validate_account_name(a.name) \/ ~validate_email(a.git_email)
    THEN [accounts |-> accts, config_file |-> file, result |-> "ValueError"]
    ELSE LET is_default == IF accts = <<>> THEN TRUE ELSE a.is_default
             cleared == IF is_default THEN ClearDefaults(accts) ELSE accts
         IN  IF a.name \in Keys(accts)
             THEN [accounts |-> cleared, config_file |-> file, result |-> "ValueError"]
             ELSE LET new == Append(cleared,
                                [key |-> a.name,
                                 acct |-> Account(a.name, a.git_username, a.git_email,
                                                  a.provider, a.host_alias, a.ssh_key_path,
                                                  a.signing_key, a.custom_host, is_default)])
                  IN  [accounts |-> new, config_file |-> SaveDoc(new), result |-> "ok"]

\* AccountManager.add_account; a is the record of its arguments.
\* Returns the new dict, the new document and "ok" or the exception raised.
add_account(accts, file, a) ==
    IF ~validate_account_name(a.name)
    THEN [accounts |-> accts, config_file |-> file, result |-> "ValueError"]
    ELSE IF ~validate_email(a.git_email)
    THEN [accounts |-> accts, config_file |-> file, result |-> "ValueError"]
    ELSE IF a.name \in Keys(accts)
    THEN [accounts |-> accts, config_file |-> file, result |-> "ValueError"]
    ELSE LET is_default == IF accts = <<>> THEN TRUE ELSE a.is_default
             cleared == IF is_default THEN ClearDefaults(accts) ELSE accts
             new == Append(cleared,
                        [key |-> a.name,
                         acct |-> Account(a.name, a.git_username, a.git_email, a.provider,
                                          a.host_alias, a.ssh_key_path, a.signing_key,
                                          a.custom_host, is_default)])
         IN  [accounts |-> new, config_file |-> SaveDoc(new), result |-> "ok"]

\* A mutant of get_default_account: no fallback to the first account
get_default_account_no_fallback(accts) ==
    IF \E i \in 1..Len(accts) : accts[i].acct.is_default
    THEN CHOOSE i \in 1..Len(accts) :
            /\ accts[i].acct.is_default
            /\ \A j \in 1..(i - 1) : ~accts[j].acct.is_default
    ELSE 0

\* AccountManager.get_default_account: the entry's position, 0 for None
get_default_account(accts) ==
    IF \E i \in 1..Len(accts) : accts[i].acct.is_default
    THEN CHOOSE i \in 1..Len(accts) :
            /\ accts[i].acct.is_default
            /\ \A j \in 1..(i - 1) : ~accts[j].acct.is_default
    ELSE IF accts # <<>> THEN 1 ELSE 0

\* A mutant of set_default: the flags are cleared before the name is looked up
set_default_clears_before_check(accts, file, name) ==
    IF name \notin Keys(accts)
    THEN [accounts |-> ClearDefaults(accts), config_file |-> file, result |-> "KeyError"]
    ELSE LET new == [i \in 1..Len(accts) |->
                        [accts[i] EXCEPT !.acct.is_default = (accts[i].acct.name = name)]]
         IN  [accounts |-> new, config_file |-> SaveDoc(new), result |-> "ok"]

\* AccountManager.set_default
set_default(accts, file, name) ==
    IF name \notin Keys(accts)
    THEN [accounts |-> accts, config_file |-> file, result |-> "KeyError"]
    ELSE LET new == [i \in 1..Len(accts) |->
                        [accts[i] EXCEPT !.acct.is_default = (accts[i].acct.name = name)]]
         IN  [accounts |-> new, config_file |-> SaveDoc(new), result |-> "ok"]

\* A mutant of remove_account: the first remaining account becomes the default
\* when the default is removed
remove_account_elects_first(accts, file, name) ==
    IF name \notin Keys(accts)
    THEN [accounts |-> accts, config_file |-> file, result |-> "KeyError"]
    ELSE LET i == IndexOf(accts, name)
             rest == SubSeq(accts, 1, i - 1) \o SubSeq(accts, i + 1, Len(accts))
             new == IF accts[i].acct.is_default /\ rest # <<>>
                    THEN [rest EXCEPT ![1].acct.is_default = TRUE]
                    ELSE rest
         IN  [accounts |-> new, config_file |-> SaveDoc(new), result |-> "ok"]

\* AccountManager.remove_account: del self.accounts[name], then _save
remove_account(accts, file, name) ==
    IF name \notin Keys(accts)
    THEN [accounts |-> accts, config_file |-> file, result |-> "KeyError"]
    ELSE LET i == IndexOf(accts, name)
             rest == SubSeq(accts, 1, i - 1) \o SubSeq(accts, i + 1, Len(accts))
         IN  [accounts |-> rest, config_file |-> SaveDoc(rest), result |-> "ok"]

\* A mutant of update_account: the change is not saved
update_account_without_save(accts, file, name, kwargs) ==
    IF name \notin Keys(accts)
    THEN [accounts |-> accts, config_file |-> file, result |-> "KeyError"]
    ELSE LET i == IndexOf(accts, name)
             v(k) == IF k \in AccountParams /\ k \in DOMAIN kwargs /\ kwargs[k] # <<>>
                     THEN kwargs[k][1]
                     ELSE accts[i].acct[k]
             account == Account(v("name"), v("git_username"), v("git_email"), v("provider"),
                                v("host_alias"), v("ssh_key_path"), v("signing_key"),
                                v("custom_host"), v("is_default"))
             new == [accts EXCEPT ![i].acct = account]
         IN  [accounts |-> new, config_file |-> file, result |-> "ok"]

\* AccountManager.update_account; kwargs maps the keywords passed to their
\* values (keywords that name a field, or no attribute at all), a value x being
\* written <<x>> and None <<>>, since values are strings or booleans.  A keyword is
\* applied when the account has an attribute of that name and the value is not
\* None; the entry keeps its key and its position.
update_account(accts, file, name, kwargs) ==
    IF name \notin Keys(accts)
    THEN [accounts |-> accts, config_file |-> file, result |-> "KeyError"]
    ELSE LET i == IndexOf(accts, name)
             v(k) == IF k \in AccountParams /\ k \in DOMAIN kwargs /\ kwargs[k] # <<>>
                     THEN kwargs[k][1]
                     ELSE accts[i].acct[k]
             account == Account(v("name"), v("git_username"), v("git_email"), v("provider"),
                                v("host_alias"), v("ssh_key_path"), v("signing_key"),
                                v("custom_host"), v("is_default"))
             new == [accts EXCEPT ![i].acct = account]
         IN  [accounts |-> new, config_file |-> SaveDoc(new), result |-> "ok"]

----------------------------------------------------------------------------
(* SSH keys and ~/.ssh/config: ssh_manager.py *)

\* PROVIDER_HOSTS
PROVIDER_HOSTS ==
    [p \in {"github", "gitlab", "bitbucket", "custom"} |->
        CASE p = "github" -> "github.com"
          [] p = "gitlab" -> "gitlab.com"
          [] p = "bitbucket" -> "bitbucket.org"
          [] p = "custom" -> None]

\* A mutant of ProviderHost: a custom provider gets the host the caller supplied
ProviderHost_custom_host_used(provider, custom_host) ==
    IF provider \in DOMAIN PROVIDER_HOSTS /\ provider # "custom"
    THEN PROVIDER_HOSTS[provider]
    ELSE custom_host

\* PROVIDER_HOSTS.get(provider, custom_host): the default is used only for a
\* provider that is no key of the table
ProviderHost(provider, custom_host) ==
    IF provider \in DOMAIN PROVIDER_HOSTS THEN PROVIDER_HOSTS[provider] ELSE custom_host

\* str(get_ssh_dir())
SSH_DIR == "/home/u/.ssh"

\* the key types _find_key_for_account, get_public_key and remove_ssh_keys try, in order
KEY_TYPES == <<"ed25519", "rsa", "ecdsa">>

\* f"id_{key_type}_{account_name}"
KeyFilename(key_type, account_name) == "id_" \o key_type \o "_" \o account_name

\* str(self.ssh_dir / filename)
KeyPath(filename) == SSH_DIR \o "/" \o filename

\* A mutant of generate_ssh_key: ssh-keygen runs whether the key file exists or not
generate_ssh_key_always_runs(dir, account_name, key_type, keygen) ==
    LET key_filename == KeyFilename(key_type, account_name)
        paths == [private_key |-> KeyPath(key_filename),
                  public_key |-> KeyPath(key_filename \o ".pub")]
    IN  IF keygen = "ok"
        THEN [ssh_dir |-> dir \cup {key_filename, key_filename \o ".pub"},
              result |-> "ok", ran_keygen |-> TRUE, ret |-> paths]
        ELSE [ssh_dir |-> dir,
              result |-> IF keygen = "fail" THEN "CalledProcessError" ELSE "SystemExit",
              ran_keygen |-> TRUE, ret |-> paths]

\* SSHManager.generate_ssh_key; keygen is what running ssh-keygen does:
\* "ok", "fail" (non-zero exit) or "missing" (no such executable)
generate_ssh_key(dir, account_name, key_type, keygen) ==
    LET key_filename == KeyFilename(key_type, account_name)
        paths == [private_key |-> KeyPath(key_filename),
                  public_key |-> KeyPath(key_filename \o ".pub")]
    IN  IF key_filename \in dir
        THEN [ssh_dir |-> dir, result |-> "ok", ran_keygen |-> FALSE, ret |-> paths]
        ELSE IF keygen = "ok"
        THEN [ssh_dir |-> dir \cup {key_filename, key_filename \o ".pub"},
              result |-> "ok", ran_keygen |-> TRUE, ret |-> paths]
        ELSE [ssh_dir |-> dir,
              result |-> IF keygen = "fail" THEN "CalledProcessError" ELSE "SystemExit",
              ran_keygen |-> TRUE, ret |-> paths]

\* SSHManager._find_key_for_account: the path of the first key file found, or None
_find_key_for_account(dir, account_name) ==
    IF \E t \in 1..Len(KEY_TYPES) : KeyFilename(KEY_TYPES[t], account_name) \in dir
    THEN KeyPath(KeyFilename(
            KEY_TYPES[CHOOSE t \in 1..Len(KEY_TYPES) :
                /\ KeyFilename(KEY_TYPES[t], account_name) \in dir
                /\ \A u \in 1..(t - 1) : KeyFilename(KEY_TYPES[u], account_name) \notin dir],
            account_name))
    ELSE None

BeginMarker(host_alias) == "# mgit-managed: " \o host_alias

EndMarker(host_alias) == "# end-mgit: " \o host_alias

\* SSHManager._build_config_entry, as the lines of the returned text
_build_config_entry(host_alias, hostname, identity_file) ==
    << BeginMarker(host_alias),
       "Host " \o host_alias,
       "    HostName " \o Str(hostname),
       "    User git",
       "    IdentityFile " \o identity_file,
       "    IdentitiesOnly yes",
       EndMarker(host_alias) >>

\* SSHManager._read_ssh_config: the lines of the text read, "" for a missing file
_read_ssh_config(cfg) == IF cfg.exists THEN cfg.lines ELSE <<"">>

\* os.chmod(self.ssh_config_file, 0o600)
MODE_0600 == 384

\* A mutant of _write_ssh_config: write_text without the chmod, the file
\* having the permission bits of a file created under umask 022
_write_ssh_config_without_chmod(lines) == [exists |-> TRUE, lines |-> lines, mode |-> 420]

\* SSHManager._write_ssh_config
_write_ssh_config(lines) == [exists |-> TRUE, lines |-> lines, mode |-> MODE_0600]

\* `host_alias in existing`: the alias holds no newline, so it occurs in the text
\* iff it occurs in one of its lines
InText(lines, t) == \E i \in 1..Len(lines) : Contains(lines[i], t)

\* existing.rstrip("\n"), on the lines of existing
RECURSIVE RStripNewlines(_)
RStripNewlines(lines) ==
    IF Len(lines) > 1 /\ lines[Len(lines)] = ""
    THEN RStripNewlines(SubSeq(lines, 1, Len(lines) - 1))
    ELSE lines

\* "\n".join(result), as lines: joining nothing gives the empty text
JoinLines(result) == IF result = <<>> THEN <<"">> ELSE result

\* the loop of _replace_config_block from line i on, with the skip flag
RECURSIVE ReplaceScan(_, _, _, _, _)
ReplaceScan(lines, i, skip, host_alias, new_entry) ==
    IF i > Len(lines) THEN <<>>
    ELSE IF Contains(lines[i], BeginMarker(host_alias))
    THEN ReplaceScan(lines, i + 1, TRUE, host_alias, new_entry)
    ELSE IF Contains(lines[i], EndMarker(host_alias))
    THEN new_entry \o ReplaceScan(lines, i + 1, FALSE, host_alias, new_entry)
    ELSE IF ~skip
    THEN <<lines[i]>> \o ReplaceScan(lines, i + 1, skip, host_alias, new_entry)
    ELSE ReplaceScan(lines, i + 1, skip, host_alias, new_entry)

\* SSHManager._replace_config_block
_replace_config_block(config, host_alias, new_entry) ==
    JoinLines(ReplaceScan(config, 1, FALSE, host_alias, new_entry))

\* SSHManager._remove_config_block: the same scan, the end marker emitting nothing
_remove_config_block(config, host_alias) ==
    JoinLines(ReplaceScan(config, 1, FALSE, host_alias, <<>>))

\* A mutant of add_ssh_config_entry: a custom provider without host is not rejected
add_ssh_config_entry_without_host_check(cfg, dir, account_name, provider, custom_host) ==
    LET actual_host == ProviderHost(provider, custom_host)
        host_alias == Str(actual_host) \o "-" \o account_name
        key_path == _find_key_for_account(dir, account_name)
    IN  IF key_path = None
        THEN [ssh_config |-> cfg, result |-> "FileNotFoundError", ret |-> None]
        ELSE LET entry == _build_config_entry(host_alias, actual_host, key_path)
                 existing == _read_ssh_config(cfg)
                 updated == IF InText(existing, host_alias)
                            THEN _replace_config_block(existing, host_alias, entry)
                            ELSE RStripNewlines(existing) \o <<"">> \o entry \o <<"">>
             IN  [ssh_config |-> _write_ssh_config(updated), result |-> "ok",
                  ret |-> host_alias]

\* SSHManager.add_ssh_config_entry
add_ssh_config_entry(cfg, dir, account_name, provider, custom_host) ==
    IF provider = "custom" /\ custom_host = None
    THEN [ssh_config |-> cfg, result |-> "ValueError", ret |-> None]
    ELSE LET actual_host == ProviderHost(provider, custom_host)
             host_alias == Str(actual_host) \o "-" \o account_name
             key_path == _find_key_for_account(dir, account_name)
         IN  IF key_path = None
             THEN [ssh_config |-> cfg, result |-> "FileNotFoundError", ret |-> None]
             ELSE LET entry == _build_config_entry(host_alias, actual_host, key_path)
                      existing == _read_ssh_config(cfg)
                      updated == IF InText(existing, host_alias)
                                 THEN _replace_config_block(existing, host_alias, entry)
                                 ELSE RStripNewlines(existing) \o <<"">> \o entry \o <<"">>
                  IN  [ssh_config |-> _write_ssh_config(updated), result |-> "ok",
                       ret |-> host_alias]

\* SSHManager.remove_ssh_config_entry
remove_ssh_config_entry(cfg, host_alias) ==
    LET existing == _read_ssh_config(cfg)
    IN  IF ~InText(existing, host_alias)
        THEN [ssh_config |-> cfg, result |-> "ok", wrote |-> FALSE]
        ELSE [ssh_config |-> _write_ssh_config(_remove_config_block(existing, host_alias)),
              result |-> "ok", wrote |-> TRUE]

\* SSHManager.remove_ssh_keys
remove_ssh_keys(dir, account_name) ==
    dir \ {KeyFilename(KEY_TYPES[t], account_name) \o suffix :
              t \in 1..Len(KEY_TYPES), suffix \in {"", ".pub"}}

----------------------------------------------------------------------------
(* Git config: git_config_manager.py *)

\* f[k] := v, adding k to the mapping when new
SetKey(f, k, v) == [x \in DOMAIN f \cup {k} |-> IF x = k THEN v ELSE f[x]]

\* Python truthiness of an Optional[str]
Truthy(x) == x # None /\ x # ""

\* a Git config with no identity set
NoGitConfig ==
    [k \in {"user.name", "user.email", "user.signingkey", "commit.gpgsign"} |-> None]

\* the (key, value) pairs of the `git config <scope> key value` commands that
\* set_global_config and set_local_config run, in order
IdentityCommands(account) ==
    << <<"user.name", account.git_username>>, <<"user.email", account.git_email>> >>
    \o (IF Truthy(account.signing_key)
        THEN << <<"user.signingkey", account.signing_key>>, <<"commit.gpgsign", "true">> >>
        ELSE <<>>)

\* run_command(["git", "config", ...]) for each command in turn; fail is the
\* position of the command that exits non-zero (check=True raises there), 0 for none
RECURSIVE RunGitConfig(_, _, _, _)
RunGitConfig(cfg, cmds, i, fail) ==
    IF i > Len(cmds) THEN [config |-> cfg, result |-> "ok", ran |-> Len(cmds)]
    ELSE IF i = fail THEN [config |-> cfg, result |-> "CalledProcessError", ran |-> i]
    ELSE RunGitConfig(SetKey(cfg, cmds[i][1], cmds[i][2]), cmds, i + 1, fail)

\* GitConfigManager.set_global_config
set_global_config(global, account, fail) ==
    RunGitConfig(global, IdentityCommands(account), 1, fail)

\* is_git_repo: git rev-parse --is-inside-work-tree exits 0 in a working tree
is_git_repo(rs, path) == path \in DOMAIN rs

\* the directories that exist and are no working trees
PlainDirs == {"/d"}

\* run_command(..., cwd=path) can start the command: the directory exists
DirExists(rs, path) == path \in DOMAIN rs \cup PlainDirs

\* GitConfigManager.set_local_config; getcwd is os.getcwd().  In a directory
\* that does not exist subprocess.run raises FileNotFoundError, which
\* run_command turns into sys.exit(1), and is_git_repo does not catch that.
set_local_config(rs, account, repo_path, getcwd, fail) ==
    LET cwd == IF Truthy(repo_path) THEN repo_path ELSE getcwd
    IN  IF ~DirExists(rs, cwd)
        THEN [repos |-> rs, result |-> "SystemExit", ran |-> 0]
        ELSE IF ~is_git_repo(rs, cwd)
        THEN [repos |-> rs, result |-> "RuntimeError", ran |-> 0]
        ELSE LET r == RunGitConfig(rs[cwd], IdentityCommands(account), 1, fail)
             IN  [repos |-> [rs EXCEPT ![cwd] = r.config], result |-> r.result, ran |-> r.ran]

\* the text setup_conditional_include writes to <directory>/.gitconfig, as lines
FragmentLines(account) ==
    << "[user]",
       "    name = " \o account.git_username,
       "    email = " \o account.git_email >>
    \o (IF Truthy(account.signing_key)
        THEN << "    signingkey = " \o account.signing_key, "[commit]", "    gpgsign = true" >>
        ELSE <<>>)
    \o << "[core]",
          "    sshCommand = ssh -i " \o account.ssh_key_path \o " -o IdentitiesOnly=yes",
          "" >>

\* GitConfigManager.setup_conditional_include, for an absolute, normalised
\* directory (Path(directory).expanduser().resolve() returns it as given)
setup_conditional_include(global, frags, directory, account, fail) ==
    LET dir_gitconfig == directory \o "/.gitconfig"
        r == RunGitConfig(global,
                 << <<"includeIf.gitdir:" \o directory \o "/" \o ".path", dir_gitconfig>> >>,
                 1, fail)
    IN  [git_global |-> r.config,
         fragments |-> SetKey(frags, dir_gitconfig, FragmentLines(account)),
         result |-> r.result]

\* GitConfigManager.setup_url_rewrite: without a host it prints an error and
\* returns; otherwise it runs git config --global url.git@<alias>:.insteadOf
setup_url_rewrite(global, account, fail) ==
    LET actual_host == ProviderHost(account.provider, account.custom_host)
    IN  IF actual_host = None
        THEN [config |-> global, result |-> "ok", error |-> TRUE, ran |-> 0]
        ELSE LET r == RunGitConfig(global,
                          << <<"url.git@" \o account.host_alias \o ":.insteadOf",
                               "git@" \o actual_host \o ":">> >>, 1, fail)
             IN  [config |-> r.config, result |-> r.result, error |-> FALSE, ran |-> r.ran]

\* the directory `git clone url` creates when no destination is given: the
\* last component of the URL, after "/" or ":", without a final ".git"
GitCloneDir(url) ==
    LET base == AfterLast(url, {"/", ":"})
    IN  IF Len(base) > 4 /\ SubSeq(base, Len(base) - 3, Len(base)) = ".git"
        THEN SubSeq(base, 1, Len(base) - 4)
        ELSE base

\* A mutant of clone_with_account: the exit status of git clone is not checked
clone_with_account_unchecked(rs, account, repo_url, destination, clone, getcwd, fail) ==
    LET actual_host == ProviderHost(account.provider, account.custom_host)
        modified_url == Replace(repo_url, "git@" \o Str(actual_host) \o ":",
                                "git@" \o account.host_alias \o ":")
        created == IF Truthy(destination) THEN destination ELSE GitCloneDir(modified_url)
        repo_dir == IF Truthy(destination) THEN destination
                    ELSE Replace(AfterLast(modified_url, {"/"}), ".git", "")
    IN  IF clone = "missing"
        THEN [repos |-> rs, result |-> "SystemExit", url |-> modified_url, ran |-> <<"git clone">>]
        ELSE IF clone = "fail" \/ created \in DOMAIN rs
        THEN LET l == set_local_config(rs, account, repo_dir, getcwd, fail)
             IN  [repos |-> l.repos, result |-> l.result, url |-> modified_url,
                  repo_dir |-> repo_dir, ran |-> <<"git clone", "set_local_config">>]
        ELSE LET l == set_local_config(SetKey(rs, created, NoGitConfig), account, repo_dir,
                                       getcwd, fail)
             IN  [repos |-> l.repos, result |-> l.result, url |-> modified_url,
                  repo_dir |-> repo_dir, ran |-> <<"git clone", "set_local_config">>]

\* GitConfigManager.clone_with_account; clone is what `git clone` does ("ok",
\* "fail" or "missing"), fail the failing command of the set_local_config
\* that follows.  A clone into a path that exists already fails.
clone_with_account(rs, account, repo_url, destination, clone, getcwd, fail) ==
    LET actual_host == ProviderHost(account.provider, account.custom_host)
        modified_url == Replace(repo_url, "git@" \o Str(actual_host) \o ":",
                                "git@" \o account.host_alias \o ":")
        created == IF Truthy(destination) THEN destination ELSE GitCloneDir(modified_url)
        repo_dir == IF Truthy(destination) THEN destination
                    ELSE Replace(AfterLast(modified_url, {"/"}), ".git", "")
    IN  IF clone = "missing"
        THEN [repos |-> rs, result |-> "SystemExit", url |-> modified_url, ran |-> <<"git clone">>]
        ELSE IF clone = "fail" \/ created \in DOMAIN rs
        THEN [repos |-> rs, result |-> "CalledProcessError", url |-> modified_url,
              ran |-> <<"git clone">>]
        ELSE LET l == set_local_config(SetKey(rs, created, NoGitConfig), account, repo_dir,
                                       getcwd, fail)
             IN  [repos |-> l.repos, result |-> l.result, url |-> modified_url,
                  repo_dir |-> repo_dir, ran |-> <<"git clone", "set_local_config">>]

----------------------------------------------------------------------------
(* Workflows: profile_manager.py *)

\* the files and the store a workflow works on
State(accts, file, cfg, dir, global, rs, frags) ==
    [accounts |-> accts, config_file |-> file, ssh_config |-> cfg, ssh_dir |-> dir,
     git_global |-> global, repos |-> rs, fragments |-> frags]

\* what a workflow returns: the state it leaves, "ok" or the exception that
\* ended it, whether it printed an error, and the steps it ran, in order
Outcome(st, result, error, steps) ==
    [st |-> st, result |-> result, error |-> error, steps |-> steps]

\* SSHManager.add_key_to_agent: ssh-add runs with check=False, so only a
\* missing executable ends the call (sys.exit)
add_key_to_agent(dir, account_name, ssh_add) ==
    IF _find_key_for_account(dir, account_name) = None THEN "ok"
    ELSE IF ssh_add = "missing" THEN "SystemExit"
    ELSE "ok"

\* A mutant of add_profile: when the store rejects the account, the key files
\* and the SSH config are put back as they were
add_profile_rolls_back(st, a, env) ==
    LET k == generate_ssh_key(st.ssh_dir, a.name, a.key_type, env.keygen)
        st1 == [st EXCEPT !.ssh_dir = k.ssh_dir]
    IN  IF k.result # "ok" THEN Outcome(st1, k.result, FALSE, <<"generate_ssh_key">>)
        ELSE
    LET c == add_ssh_config_entry(st1.ssh_config, st1.ssh_dir, a.name, a.provider, a.custom_host)
        st2 == [st1 EXCEPT !.ssh_config = c.ssh_config]
    IN  IF c.result # "ok"
        THEN Outcome(st2, c.result, FALSE, <<"generate_ssh_key", "add_ssh_config_entry">>)
        ELSE
    LET s == add_account(st2.accounts, st2.config_file,
                 [name |-> a.name, git_username |-> a.git_username, git_email |-> a.git_email,
                  provider |-> a.provider, host_alias |-> c.ret,
                  ssh_key_path |-> k.ret.private_key, signing_key |-> a.signing_key,
                  custom_host |-> a.custom_host, is_default |-> a.is_default])
        st3 == [st2 EXCEPT !.accounts = s.accounts, !.config_file = s.config_file]
    IN  IF s.result # "ok"
        THEN Outcome(st, s.result, FALSE,
                     <<"generate_ssh_key", "add_ssh_config_entry", "add_account">>)
        ELSE
    LET g == add_key_to_agent(st3.ssh_dir, a.name, env.ssh_add)
    IN  IF g # "ok"
        THEN Outcome(st3, g, FALSE,
                     <<"generate_ssh_key", "add_ssh_config_entry", "add_account",
                       "add_key_to_agent">>)
        ELSE IF ~Truthy(a.workspace_dir)
        THEN Outcome(st3, "ok", FALSE,
                     <<"generate_ssh_key", "add_ssh_config_entry", "add_account",
                       "add_key_to_agent">>)
        ELSE
    LET w == setup_conditional_include(st3.git_global, st3.fragments, a.workspace_dir,
                 st3.accounts[IndexOf(st3.accounts, a.name)].acct, env.git_fail)
        st5 == [st3 EXCEPT !.git_global = w.git_global, !.fragments = w.fragments]
    IN  Outcome(st5, w.result, FALSE,
                <<"generate_ssh_key", "add_ssh_config_entry", "add_account",
                  "add_key_to_agent", "setup_conditional_include">>)

\* ProfileManager.add_profile; a is the record of its arguments, env what the
\* external tools do: env.keygen and env.ssh_add in {"ok", "fail", "missing"},
\* env.git_fail the position of the git command that fails, 0 for none
add_profile(st, a, env) ==
    LET k == generate_ssh_key(st.ssh_dir, a.name, a.key_type, env.keygen)
        st1 == [st EXCEPT !.ssh_dir = k.ssh_dir]
    IN  IF k.result # "ok" THEN Outcome(st1, k.result, FALSE, <<"generate_ssh_key">>)
        ELSE
    LET c == add_ssh_config_entry(st1.ssh_config, st1.ssh_dir, a.name, a.provider, a.custom_host)
        st2 == [st1 EXCEPT !.ssh_config = c.ssh_config]
    IN  IF c.result # "ok"
        THEN Outcome(st2, c.result, FALSE, <<"generate_ssh_key", "add_ssh_config_entry">>)
        ELSE
    LET s == add_account(st2.accounts, st2.config_file,
                 [name |-> a.name, git_username |-> a.git_username, git_email |-> a.git_email,
                  provider |-> a.provider, host_alias |-> c.ret,
                  ssh_key_path |-> k.ret.private_key, signing_key |-> a.signing_key,
                  custom_host |-> a.custom_host, is_default |-> a.is_default])
        st3 == [st2 EXCEPT !.accounts = s.accounts, !.config_file = s.config_file]
    IN  IF s.result # "ok"
        THEN Outcome(st3, s.result, FALSE,
                     <<"generate_ssh_key", "add_ssh_config_entry", "add_account">>)
        ELSE
    LET g == add_key_to_agent(st3.ssh_dir, a.name, env.ssh_add)
    IN  IF g # "ok"
        THEN Outcome(st3, g, FALSE,
                     <<"generate_ssh_key", "add_ssh_config_entry", "add_account",
                       "add_key_to_agent">>)
        ELSE IF ~Truthy(a.workspace_dir)
        THEN Outcome(st3, "ok", FALSE,
                     <<"generate_ssh_key", "add_ssh_config_entry", "add_account",
                       "add_key_to_agent">>)
        ELSE
    LET w == setup_conditional_include(st3.git_global, st3.fragments, a.workspace_dir,
                 st3.accounts[IndexOf(st3.accounts, a.name)].acct, env.git_fail)
        st5 == [st3 EXCEPT !.git_global = w.git_global, !.fragments = w.fragments]
    IN  Outcome(st5, w.result, FALSE,
                <<"generate_ssh_key", "add_ssh_config_entry", "add_account",
                  "add_key_to_agent", "setup_conditional_include">>)

\* A mutant of remove_profile: the caller is not asked to confirm
remove_profile_without_confirm(st, name, delete_keys, confirm, unlink) ==
    LET i == get_account(st.accounts, name)
    IN  IF i = 0 THEN Outcome(st, "ok", TRUE, <<>>)
        ELSE
    LET c == remove_ssh_config_entry(st.ssh_config, st.accounts[i].acct.host_alias)
        st1 == [st EXCEPT !.ssh_config = c.ssh_config]
    IN  IF delete_keys /\ unlink = "fail" /\ remove_ssh_keys(st.ssh_dir, name) # st.ssh_dir
        THEN Outcome(st1, "PermissionError", FALSE,
                     <<"remove_ssh_config_entry", "remove_ssh_keys">>)
        ELSE
    LET dir == IF delete_keys THEN remove_ssh_keys(st1.ssh_dir, name) ELSE st1.ssh_dir
        s == remove_account(st1.accounts, st1.config_file, name)
    IN  Outcome([st1 EXCEPT !.ssh_dir = dir, !.accounts = s.accounts,
                            !.config_file = s.config_file],
                s.result, FALSE,
                <<"remove_ssh_config_entry">>
                \o (IF delete_keys THEN <<"remove_ssh_keys">> ELSE <<>>)
                \o <<"remove_account">>)

\* ProfileManager.remove_profile; confirm is the answer confirm_action returns,
\* unlink what deleting a key file does: "ok", or "fail" when path.unlink()
\* raises PermissionError at the first key file found
remove_profile(st, name, delete_keys, confirm, unlink) ==
    LET i == get_account(st.accounts, name)
    IN  IF i = 0 THEN Outcome(st, "ok", TRUE, <<>>)
        ELSE IF ~confirm THEN Outcome(st, "ok", FALSE, <<>>)
        ELSE
    LET c == remove_ssh_config_entry(st.ssh_config, st.accounts[i].acct.host_alias)
        st1 == [st EXCEPT !.ssh_config = c.ssh_config]
    IN  IF delete_keys /\ unlink = "fail" /\ remove_ssh_keys(st.ssh_dir, name) # st.ssh_dir
        THEN Outcome(st1, "PermissionError", FALSE,
                     <<"remove_ssh_config_entry", "remove_ssh_keys">>)
        ELSE
    LET dir == IF delete_keys THEN remove_ssh_keys(st1.ssh_dir, name) ELSE st1.ssh_dir
        s == remove_account(st1.accounts, st1.config_file, name)
    IN  Outcome([st1 EXCEPT !.ssh_dir = dir, !.accounts = s.accounts,
                            !.config_file = s.config_file],
                s.result, FALSE,
                <<"remove_ssh_config_entry">>
                \o (IF delete_keys THEN <<"remove_ssh_keys">> ELSE <<>>)
                \o <<"remove_account">>)

\* A mutant of switch_profile: the global scope does not promote the account
switch_profile_without_promotion(st, name, scope, repo_path, getcwd, fail) ==
    LET i == get_account(st.accounts, name)
    IN  IF i = 0 THEN Outcome(st, "ok", TRUE, <<>>)
        ELSE IF scope = "global"
        THEN LET g == set_global_config(st.git_global, st.accounts[i].acct, fail)
             IN  Outcome([st EXCEPT !.git_global = g.config], g.result, FALSE,
                         <<"set_global_config">>)
        ELSE IF scope = "local"
        THEN LET l == set_local_config(st.repos, st.accounts[i].acct, repo_path, getcwd, fail)
             IN  Outcome([st EXCEPT !.repos = l.repos], l.result, FALSE, <<"set_local_config">>)
        ELSE Outcome(st, "ok", TRUE, <<>>)

\* A mutant of switch_profile: the local scope promotes the account as well
switch_profile_local_promotes(st, name, scope, repo_path, getcwd, fail) ==
    LET i == get_account(st.accounts, name)
    IN  IF i = 0 THEN Outcome(st, "ok", TRUE, <<>>)
        ELSE IF scope = "global"
        THEN LET g == set_global_config(st.git_global, st.accounts[i].acct, fail)
                 st1 == [st EXCEPT !.git_global = g.config]
             IN  IF g.result # "ok" THEN Outcome(st1, g.result, FALSE, <<"set_global_config">>)
                 ELSE LET d == set_default(st1.accounts, st1.config_file, name)
                      IN  Outcome([st1 EXCEPT !.accounts = d.accounts,
                                              !.config_file = d.config_file],
                                  d.result, FALSE, <<"set_global_config", "set_default">>)
        ELSE IF scope = "local"
        THEN LET l == set_local_config(st.repos, st.accounts[i].acct, repo_path, getcwd, fail)
                 st1 == [st EXCEPT !.repos = l.repos]
             IN  IF l.result # "ok" THEN Outcome(st1, l.result, FALSE, <<"set_local_config">>)
                 ELSE LET d == set_default(st1.accounts, st1.config_file, name)
                      IN  Outcome([st1 EXCEPT !.accounts = d.accounts,
                                              !.config_file = d.config_file],
                                  d.result, FALSE, <<"set_local_config", "set_default">>)
        ELSE Outcome(st, "ok", TRUE, <<>>)

\* ProfileManager.switch_profile
switch_profile(st, name, scope, repo_path, getcwd, fail) ==
    LET i == get_account(st.accounts, name)
    IN  IF i = 0 THEN Outcome(st, "ok", TRUE, <<>>)
        ELSE IF scope = "global"
        THEN LET g == set_global_config(st.git_global, st.accounts[i].acct, fail)
                 st1 == [st EXCEPT !.git_global = g.config]
             IN  IF g.result # "ok" THEN Outcome(st1, g.result, FALSE, <<"set_global_config">>)
                 ELSE LET d == set_default(st1.accounts, st1.config_file, name)
                      IN  Outcome([st1 EXCEPT !.accounts = d.accounts,
                                              !.config_file = d.config_file],
                                  d.result, FALSE, <<"set_global_config", "set_default">>)
        ELSE IF scope = "local"
        THEN LET l == set_local_config(st.repos, st.accounts[i].acct, repo_path, getcwd, fail)
             IN  Outcome([st EXCEPT !.repos = l.repos], l.result, FALSE, <<"set_local_config">>)
        ELSE Outcome(st, "ok", TRUE, <<>>)

\* SSHManager.test_ssh_connection: `ssh -T` runs with check=False and changes
\* no file; ssh is "ok", "fail" or "missing" (no such executable: sys.exit)
test_ssh_connection(host_alias, ssh) == IF ssh = "missing" THEN "SystemExit" ELSE "ok"

\* A mutant of clone_repo: the account is not looked up before the clone
clone_repo_without_lookup(st, name, repo_url, destination, clone, getcwd, fail) ==
    LET i == get_account(st.accounts, name)
        account == IF i = 0
                   THEN Account(name, name, "", "github", "github.com-" \o name, "", None, None, FALSE)
                   ELSE st.accounts[i].acct
        c == clone_with_account(st.repos, account, repo_url, destination, clone, getcwd, fail)
    IN  Outcome([st EXCEPT !.repos = c.repos], c.result, FALSE, <<"clone_with_account">>)

\* ProfileManager.clone_repo
clone_repo(st, name, repo_url, destination, clone, getcwd, fail) ==
    LET i == get_account(st.accounts, name)
    IN  IF i = 0 THEN Outcome(st, "ok", TRUE, <<>>)
        ELSE LET c == clone_with_account(st.repos, st.accounts[i].acct, repo_url, destination,
                                         clone, getcwd, fail)
             IN  Outcome([st EXCEPT !.repos = c.repos], c.result, FALSE,
                         <<"clone_with_account">>)

\* ProfileManager.test_connection
test_connection(st, name, ssh) ==
    LET i == get_account(st.accounts, name)
    IN  IF i = 0 THEN Outcome(st, "ok", TRUE, <<>>)
        ELSE Outcome(st, test_ssh_connection(st.accounts[i].acct.host_alias, ssh), ssh = "fail",
                     <<"test_ssh_connection">>)

\* ProfileManager.setup_workspace
setup_workspace(st, name, directory, fail) ==
    LET i == get_account(st.accounts, name)
    IN  IF i = 0 THEN Outcome(st, "ok", TRUE, <<>>)
        ELSE LET w == setup_conditional_include(st.git_global, st.fragments, directory,
                                                st.accounts[i].acct, fail)
             IN  Outcome([st EXCEPT !.git_global = w.git_global, !.fragments = w.fragments],
                         w.result, FALSE, <<"setup_conditional_include">>)

----------------------------------------------------------------------------
(* Inputs of the store's callers *)

ProfileNames == {"a", "ab", "b"}

BadNames == {"", "a b"}

Emails == {"a@e.com", "not-an-email"}

NoFile == [exists |-> FALSE, version |-> "", accounts |-> <<>>]

\* the arguments of a direct AccountManager.add_account call (tests/test_account_manager.py)
StoreAddArgs ==
    [name : ProfileNames \cup BadNames, git_username : {"alice"}, git_email : Emails,
     provider : {"github"}, host_alias : {"h"}, ssh_key_path : {"/tmp/k"},
     signing_key : {None}, custom_host : {None}, is_default : BOOLEAN]

InitFiles ==
    /\ ssh_config = [exists |-> FALSE, lines |-> <<"">>, mode |-> 0]
    /\ ssh_dir = {}
    /\ git_global = NoGitConfig
    /\ repos = <<>>
    /\ fragments = <<>>
    /\ procs = <<>>
    /\ e2e = [pc |-> "unused"]

\* AccountManager.__init__ with no config.yaml: an empty store
InitStore ==
    /\ accounts = <<>>
    /\ config_file = NoFile
    /\ last = [op |-> "init", result |-> "ok"]
    /\ InitFiles

StoreAdd ==
    \E a \in StoreAddArgs :
        \E r \in {add_account(accounts, config_file, a)} :
        /\ accounts' = r.accounts
        /\ config_file' = r.config_file
        /\ last' = [op |-> "add_account", args |-> a, result |-> r.result]
        /\ UNCHANGED <<ssh_config, ssh_dir, git_global, repos, fragments, e2e, procs>>

StoreSetDefault ==
    \E name \in ProfileNames \cup BadNames :
        \E r \in {set_default(accounts, config_file, name)} :
        /\ accounts' = r.accounts
        /\ config_file' = r.config_file
        /\ last' = [op |-> "set_default", args |-> [name |-> name], result |-> r.result]
        /\ UNCHANGED <<ssh_config, ssh_dir, git_global, repos, fragments, e2e, procs>>

NextAddSetDefault == StoreAdd \/ StoreSetDefault

\* every sequence of add and set_default calls on a store that starts empty
SpecAddSetDefault == InitStore /\ [][NextAddSetDefault]_vars

----------------------------------------------------------------------------
(* The store under all its operations, in one process or across processes *)

\* the arguments of the add_account calls
StoreOpAddArgs ==
    [name : {"a", "b", "a b"}, git_username : {"alice"},
     git_email : {"a@e.com", "not-an-email"},
     provider : {"github"}, host_alias : {"h"}, ssh_key_path : {"/tmp/k"},
     signing_key : {None}, custom_host : {None}, is_default : BOOLEAN]

\* the names remove, set_default, update and get are called with
StoreOpNames == {"a", "b", "zz"}

\* the keyword arguments of the update_account calls
UpdateKwargs ==
    { [git_email |-> <<>>, signing_key |-> <<"ABCD1234">>],
      [is_default |-> <<TRUE>>],
      [is_default |-> <<FALSE>>],
      [name |-> <<"b">>],
      [nickname |-> <<"al">>] }

\* the store is empty and nothing was added yet
InitStoreOps ==
    /\ accounts = <<>>
    /\ config_file = NoFile
    /\ last = [op |-> "init", result |-> "ok"]
    /\ ssh_config = [exists |-> FALSE, lines |-> <<"">>, mode |-> 0]
    /\ ssh_dir = {}
    /\ git_global = NoGitConfig
    /\ repos = <<>>
    /\ fragments = <<>>
    /\ procs = <<>>
    /\ e2e = [pc |-> "store", added |-> <<>>]

\* the names in seq other than name, in order
Without(seq, name) == SelectSeq(seq, LAMBDA x : x # name)

\* add_account; e2e.added lists the names of the stored accounts in the order
\* in which they were added
StoreOpAdd ==
    \E a \in StoreOpAddArgs :
        \E r \in {add_account(accounts, config_file, a)} :
        /\ accounts' = r.accounts
        /\ config_file' = r.config_file
        /\ last' = [op |-> "add_account", args |-> a, result |-> r.result, ret |-> None]
        /\ UNCHANGED procs
        /\ e2e' = IF r.result = "ok" THEN [e2e EXCEPT !.added = Append(@, a.name)] ELSE e2e
        /\ UNCHANGED <<ssh_config, ssh_dir, git_global, repos, fragments>>

StoreOpRemove ==
    \E name \in StoreOpNames :
        \E r \in {remove_account(accounts, config_file, name)} :
        /\ accounts' = r.accounts
        /\ config_file' = r.config_file
        /\ last' = [op |-> "remove_account", args |-> [name |-> name], result |-> r.result,
                    ret |-> None, before |-> accounts]
        /\ UNCHANGED procs
        /\ e2e' = IF r.result = "ok" THEN [e2e EXCEPT !.added = Without(@, name)] ELSE e2e
        /\ UNCHANGED <<ssh_config, ssh_dir, git_global, repos, fragments>>

StoreOpSetDefault ==
    \E name \in StoreOpNames :
        \E r \in {set_default(accounts, config_file, name)} :
        /\ accounts' = r.accounts
        /\ config_file' = r.config_file
        /\ last' = [op |-> "set_default", args |-> [name |-> name], result |-> r.result,
                    ret |-> None]
        /\ UNCHANGED <<ssh_config, ssh_dir, git_global, repos, fragments, e2e, procs>>

StoreOpUpdate ==
    \E name \in StoreOpNames : \E kwargs \in UpdateKwargs :
        \E r \in {update_account(accounts, config_file, name, kwargs)} :
        /\ accounts' = r.accounts
        /\ config_file' = r.config_file
        /\ last' = [op |-> "update_account", args |-> [name |-> name, kwargs |-> kwargs],
                    result |-> r.result, ret |-> None]
        /\ UNCHANGED <<ssh_config, ssh_dir, git_global, repos, fragments, e2e, procs>>

\* get_default_account: ret is the key of the account returned, or None
StoreOpGetDefault ==
    /\ \E i \in {get_default_account(accounts)} :
          last' = [op |-> "get_default_account", args |-> <<>>, result |-> "ok",
                   ret |-> IF i = 0 THEN None ELSE accounts[i].key]
    /\ UNCHANGED <<accounts, config_file, ssh_config, ssh_dir, git_global, repos, fragments, e2e, procs>>

\* the next invocation of the tool: AccountManager.__init__ loads the document
StoreOpLoad ==
    /\ accounts' = _load(config_file)
    /\ last' = [op |-> "_load", args |-> <<>>, result |-> "ok", ret |-> None]
    /\ UNCHANGED <<config_file, ssh_config, ssh_dir, git_global, repos, fragments, e2e, procs>>

NextStoreOps ==
    \/ StoreOpAdd
    \/ StoreOpRemove
    \/ StoreOpSetDefault
    \/ StoreOpUpdate
    \/ StoreOpGetDefault
    \/ StoreOpLoad

\* every sequence of store calls, each in the process of the one before or in a
\* new one
SpecStoreOps == InitStoreOps /\ [][NextStoreOps]_vars

----------------------------------------------------------------------------
(* Invocations on a document that may be malformed *)

\* a record as AccountManager.add_account stores it
StoredAccount(name, is_default) ==
    Account(name, "alice", "a@e.com", "github", "h", "/tmp/k", None, None, is_default)

\* the config.yaml found by the first invocation: none, a well-formed one
\* holding z, text that is no YAML, and YAML whose record of z lacks fields
\* (a file cut short)
LoadDocuments ==
    { NoFile,
      SaveDoc(<<[key |-> "z", acct |-> StoredAccount("z", TRUE)]>>),
      [exists |-> TRUE, raw |-> "accounts: {z: [name"],
      [exists |-> TRUE, version |-> "1.0",
       accounts |-> [k \in {"z"} |-> [name |-> "z", git_username |-> "alice"]]] }

InitLoad ==
    /\ accounts = <<>>
    /\ config_file \in LoadDocuments
    /\ last = [op |-> "init", result |-> "ok"]
    /\ ssh_config = [exists |-> FALSE, lines |-> <<"">>, mode |-> 0]
    /\ ssh_dir = {}
    /\ git_global = NoGitConfig
    /\ repos = <<>>
    /\ fragments = <<>>
    /\ procs = <<>>
    /\ e2e = [pc |-> "start", added |-> <<>>]

\* an invocation starts: AccountManager.__init__ loads the document; an
\* exception ends the invocation
LoadInvoke ==
    /\ \E r \in {AccountManager(config_file)} :
          /\ accounts' = r.accounts
          /\ last' = [op |-> "AccountManager", args |-> <<>>, result |-> r.result,
                      warned |-> r.warned, ret |-> None]
          /\ e2e' = [e2e EXCEPT !.pc = IF r.result = "ok" THEN "loaded" ELSE "aborted",
                                !.added = [i \in 1..Len(r.accounts) |-> r.accounts[i].key]]
    /\ UNCHANGED <<config_file, ssh_config, ssh_dir, git_global, repos, fragments, procs>>

\* a store call of the invocation that has loaded
LoadMutate ==
    /\ e2e.pc = "loaded"
    /\ \/ \E a \in StoreOpAddArgs :
             \E r \in {add_account(accounts, config_file, a)} :
             /\ accounts' = r.accounts
             /\ config_file' = r.config_file
             /\ last' = [op |-> "add_account", args |-> a, result |-> r.result, ret |-> None]
             /\ e2e' = IF r.result = "ok" THEN [e2e EXCEPT !.added = Append(@, a.name)] ELSE e2e
       \/ \E name \in StoreOpNames :
             \E r \in {remove_account(accounts, config_file, name)} :
             /\ accounts' = r.accounts
             /\ config_file' = r.config_file
             /\ last' = [op |-> "remove_account", args |-> [name |-> name],
                         result |-> r.result, ret |-> None]
             /\ e2e' = IF r.result = "ok" THEN [e2e EXCEPT !.added = Without(@, name)] ELSE e2e
       \/ \E name \in StoreOpNames :
             \E r \in {set_default(accounts, config_file, name)} :
             /\ accounts' = r.accounts
             /\ config_file' = r.config_file
             /\ last' = [op |-> "set_default", args |-> [name |-> name],
                         result |-> r.result, ret |-> None]
             /\ UNCHANGED e2e
       \/ \E name \in StoreOpNames : \E kwargs \in UpdateKwargs :
             \E r \in {update_account(accounts, config_file, name, kwargs)} :
             /\ accounts' = r.accounts
             /\ config_file' = r.config_file
             /\ last' = [op |-> "update_account", args |-> [name |-> name, kwargs |-> kwargs],
                         result |-> r.result, ret |-> None]
             /\ UNCHANGED e2e
    /\ UNCHANGED <<ssh_config, ssh_dir, git_global, repos, fragments, procs>>

NextLoad == LoadInvoke \/ LoadMutate

\* invocations of the tool, each loading the document and then calling the store
SpecLoad == InitLoad /\ [][NextLoad]_vars

----------------------------------------------------------------------------
(* Encoding and decoding one account record *)

\* account records with valid field values: signing_key and custom_host absent
\* or set, either value of is_default
RoundTripAccounts ==
    {Account(n, "alice", "a@e.com", p, h, KeyPath(KeyFilename("ed25519", n)), k, c, d) :
        n \in {"a", "ab"}, p \in {"github", "custom"},
        h \in {"github.com-a", "git.example.com-ab"},
        k \in {None, "ABCD1234"}, c \in {None, "git.example.com"}, d \in BOOLEAN}

InitRoundTrip ==
    /\ accounts = <<>>
    /\ config_file = NoFile
    /\ last \in {[op |-> "account", acct |-> a] : a \in RoundTripAccounts}
    /\ InitFiles

\* data = a.to_dict()
RoundTripEncode ==
    /\ last.op = "account"
    /\ last' = [op |-> "to_dict", acct |-> last.acct, data |-> to_dict(last.acct)]
    /\ UNCHANGED <<accounts, config_file, ssh_config, ssh_dir, git_global, repos, fragments, e2e, procs>>

\* Account.from_dict(data)
RoundTripDecode ==
    /\ last.op = "to_dict"
    /\ last' = [op |-> "from_dict", acct |-> last.acct, data |-> last.data,
                ret |-> from_dict(last.data)]
    /\ UNCHANGED <<accounts, config_file, ssh_config, ssh_dir, git_global, repos, fragments, e2e, procs>>

NextRoundTrip == RoundTripEncode \/ RoundTripDecode

\* to_dict, then from_dict, on every account record of RoundTripAccounts
SpecRoundTrip == InitRoundTrip /\ [][NextRoundTrip]_vars

----------------------------------------------------------------------------
(* The SSH engine called directly *)

\* the longest ~/.ssh/config the model lets an add produce, in lines
MaxLines == 20

\* (account_name, provider, custom_host) of the add_ssh_config_entry calls
SshAddArgs ==
    { [account_name |-> "a", provider |-> "github", custom_host |-> None],
      [account_name |-> "ab", provider |-> "github", custom_host |-> None],
      [account_name |-> "a", provider |-> "custom", custom_host |-> "git.example.com"],
      [account_name |-> "a", provider |-> "custom", custom_host |-> None] }

\* (account_name, key_type) of the generate_ssh_key calls
SshKeyArgs ==
    { [account_name |-> "a", key_type |-> "ed25519"],
      [account_name |-> "a", key_type |-> "rsa"],
      [account_name |-> "ab", key_type |-> "ed25519"] }

\* the host aliases callers remove, "github.com-a" being a prefix of "github.com-ab"
Aliases == {"github.com-a", "github.com-ab", "git.example.com-a", "None-a"}

\* an SSH config the user wrote before mgit touched it: none, a stanza for
\* another host, a stanza of the user's own for the host name mgit will use as alias
UserConfigs ==
    { [exists |-> FALSE, lines |-> <<"">>, mode |-> 0],
      [exists |-> TRUE, lines |-> <<"Host other", "    HostName other.com", "">>, mode |-> 420],
      [exists |-> TRUE, lines |-> <<"Host github.com-a", "    User git", "">>, mode |-> 420] }

InitSSH ==
    /\ accounts = <<>>
    /\ config_file = NoFile
    /\ last = [op |-> "init", result |-> "ok"]
    /\ ssh_config \in UserConfigs
    /\ ssh_dir = {}
    /\ git_global = NoGitConfig
    /\ repos = <<>>
    /\ fragments = <<>>
    /\ procs = <<>>
    /\ e2e = [pc |-> "unused"]

SshGenerateKey ==
    \E k \in SshKeyArgs : \E keygen \in {"ok", "fail", "missing"} :
        \E r \in {generate_ssh_key(ssh_dir, k.account_name, k.key_type, keygen)} :
        /\ ssh_dir' = r.ssh_dir
        /\ last' = [op |-> "generate_ssh_key", args |-> k, result |-> r.result, ret |-> r.ret,
                    env |-> [keygen |-> keygen], ran_keygen |-> r.ran_keygen]
        /\ UNCHANGED <<accounts, config_file, ssh_config, git_global, repos, fragments, e2e, procs>>

SshAddConfigEntry ==
    \E a \in SshAddArgs :
        \E r \in {add_ssh_config_entry(ssh_config, ssh_dir, a.account_name, a.provider,
                                      a.custom_host)} :
        /\ Len(r.ssh_config.lines) <= MaxLines
        /\ ssh_config' = r.ssh_config
        /\ last' = [op |-> "add_ssh_config_entry", args |-> a, result |-> r.result,
                    ret |-> r.ret]
        /\ UNCHANGED <<accounts, config_file, ssh_dir, git_global, repos, fragments, e2e, procs>>

SshRemoveConfigEntry ==
    \E host_alias \in Aliases :
        \E r \in {remove_ssh_config_entry(ssh_config, host_alias)} :
        /\ ssh_config' = r.ssh_config
        /\ last' = [op |-> "remove_ssh_config_entry", args |-> [host_alias |-> host_alias],
                    result |-> r.result, ret |-> None]
        /\ UNCHANGED <<accounts, config_file, ssh_dir, git_global, repos, fragments, e2e, procs>>

SshRemoveKeys ==
    \E account_name \in {"a", "ab"} :
        /\ ssh_dir' = remove_ssh_keys(ssh_dir, account_name)
        /\ last' = [op |-> "remove_ssh_keys", args |-> [account_name |-> account_name],
                    result |-> "ok", ret |-> None]
        /\ UNCHANGED <<accounts, config_file, ssh_config, git_global, repos, fragments, e2e, procs>>

NextSSH == SshGenerateKey \/ SshAddConfigEntry \/ SshRemoveConfigEntry \/ SshRemoveKeys

\* every sequence of SSH engine calls on a config the user may have written
SpecSSH == InitSSH /\ [][NextSSH]_vars

\* an SSH config in which the block of github.com-a has lost its end marker
\* (cut by hand), followed by a stanza of the user
UnterminatedConfig ==
    [exists |-> TRUE,
     lines |-> <<BeginMarker("github.com-a"), "Host github.com-a", "    HostName github.com",
                 "    User git", "    IdentityFile " \o KeyPath(KeyFilename("ed25519", "a")),
                 "    IdentitiesOnly yes", "", "Host other", "    HostName other.com", "">>,
     mode |-> MODE_0600]

InitUnterminated ==
    /\ accounts = <<>>
    /\ config_file = NoFile
    /\ last = [op |-> "init", result |-> "ok"]
    /\ ssh_config = UnterminatedConfig
    /\ ssh_dir \in {{}, {KeyFilename("ed25519", "a"), KeyFilename("ed25519", "a") \o ".pub"}}
    /\ git_global = NoGitConfig
    /\ repos = <<>>
    /\ fragments = <<>>
    /\ procs = <<>>
    /\ e2e = [pc |-> "unused"]

\* every sequence of SSH engine calls on a config with an unterminated block
SpecUnterminated == InitUnterminated /\ [][NextSSH]_vars

----------------------------------------------------------------------------
(* The workflows called by the command line *)

\* what the external tools do during one invocation: all succeed, or one fails
Envs ==
    { [keygen |-> "ok", ssh_add |-> "ok", git_fail |-> 0],
      [keygen |-> "fail", ssh_add |-> "ok", git_fail |-> 0],
      [keygen |-> "ok", ssh_add |-> "missing", git_fail |-> 0],
      [keygen |-> "ok", ssh_add |-> "ok", git_fail |-> 1] }

AllOk == [keygen |-> "ok", ssh_add |-> "ok", git_fail |-> 0]

\* the identity the user gives each profile name
UsernameOf(name) == IF name = "a" THEN "alice" ELSE IF name = "ab" THEN "bob" ELSE "carol"

EmailOf(name) == IF name = "a" THEN "a@e.com" ELSE IF name = "ab" THEN "b@e.com" ELSE "c@e.com"

\* the arguments of add_profile as cli.add passes them
ProfileArgs(n, email, d, w) ==
    [name |-> n, git_username |-> UsernameOf(n), git_email |-> email, provider |-> "github",
     custom_host |-> None, key_type |-> "ed25519", passphrase |-> "", signing_key |-> None,
     is_default |-> d, workspace_dir |-> w]

\* the add_profile calls: the arguments and what the external tools do
AddProfileCalls ==
    ({ProfileArgs(n, IF ok THEN EmailOf(n) ELSE "not-an-email", d, None) :
          n \in {"a", "ab"}, ok \in BOOLEAN, d \in BOOLEAN}
        \X {e \in Envs : e.git_fail = 0})
    \cup ({ProfileArgs("ab", EmailOf("ab"), FALSE, "/w")} \X {e \in Envs : e.keygen = "ok"})

\* the working trees on the machine: "/r" is where the tool is run, "/r2" another
\* one; "/d" is a directory outside any of them
InitRepos == [path \in {"/r", "/r2"} |-> NoGitConfig]

InitMachine ==
    /\ accounts = <<>>
    /\ config_file = NoFile
    /\ last = [op |-> "init", result |-> "ok"]
    /\ ssh_config = [exists |-> FALSE, lines |-> <<"">>, mode |-> 0]
    /\ ssh_dir = {}
    /\ git_global = NoGitConfig
    /\ repos = InitRepos
    /\ fragments = [path \in {} |-> <<>>]
    /\ procs = <<>>
    /\ e2e = [pc |-> "unused"]

Here == State(accounts, config_file, ssh_config, ssh_dir, git_global, repos, fragments)

\* the state a workflow leaves becomes the machine's
Becomes(st) ==
    /\ accounts' = st.accounts
    /\ config_file' = st.config_file
    /\ ssh_config' = st.ssh_config
    /\ ssh_dir' = st.ssh_dir
    /\ git_global' = st.git_global
    /\ repos' = st.repos
    /\ fragments' = st.fragments

AddProfile ==
    \E call \in AddProfileCalls :
        \E r \in {add_profile(Here, call[1], call[2])} :
        /\ Len(r.st.ssh_config.lines) <= MaxLines
        /\ Becomes(r.st)
        /\ last' = [op |-> "add_profile", args |-> call[1], env |-> call[2],
                    result |-> r.result,
                    error |-> r.error, steps |-> r.steps]
        /\ UNCHANGED <<e2e, procs>>

RemoveProfile ==
    \E name \in {"a", "ab", "b"} : \E delete_keys \in BOOLEAN : \E confirm \in BOOLEAN :
        \E r \in {remove_profile(Here, name, delete_keys, confirm, "ok")} :
        /\ Becomes(r.st)
        /\ last' = [op |-> "remove_profile",
                    args |-> [name |-> name, delete_keys |-> delete_keys, confirm |-> confirm],
                    env |-> AllOk, result |-> r.result, error |-> r.error, steps |-> r.steps]
        /\ UNCHANGED <<e2e, procs>>

Next == AddProfile \/ RemoveProfile

\* every sequence of add and remove workflows on a fresh machine
Spec == InitMachine /\ [][Next]_vars

\* the arguments of add_profile before a switch
SwitchAddArgs ==
    {ProfileArgs(n, EmailOf(n), d, None) : n \in {"a", "ab"}, d \in BOOLEAN}

\* (scope, repo_path) as cli.switch passes them, and a scope the CLI never passes
SwitchScopes ==
    { [scope |-> "global", repo_path |-> None],
      [scope |-> "local", repo_path |-> None],
      [scope |-> "local", repo_path |-> "/d"],
      [scope |-> "worktree", repo_path |-> None] }

\* os.getcwd() of the invocation
Getcwd == "/r"

\* a profile that is not in the store yet is added, the external tools succeeding
SwitchAdd ==
    \E a \in {x \in SwitchAddArgs : x.name \notin Keys(accounts)} :
        \E r \in {add_profile(Here, a, AllOk)} :
        /\ Becomes(r.st)
        /\ last' = [op |-> "add_profile", args |-> a, env |-> AllOk, result |-> r.result,
                    error |-> r.error, steps |-> r.steps]
        /\ UNCHANGED <<e2e, procs>>

SwitchProfile ==
    \E name \in {"a", "ab", "b"} : \E s \in SwitchScopes : \E fail \in {0, 2} :
        \E r \in {switch_profile(Here, name, s.scope, s.repo_path, Getcwd, fail)} :
        /\ Becomes(r.st)
        /\ last' = [op |-> "switch_profile",
                    args |-> [name |-> name, scope |-> s.scope, repo_path |-> s.repo_path],
                    env |-> [keygen |-> "ok", ssh_add |-> "ok", git_fail |-> fail],
                    result |-> r.result, error |-> r.error, steps |-> r.steps]
        /\ UNCHANGED <<e2e, procs>>

NextSwitch == SwitchAdd \/ SwitchProfile

\* profiles are added, then switched to globally or per repository
SpecSwitch == InitMachine /\ [][NextSwitch]_vars

----------------------------------------------------------------------------
(* Profiles of several providers *)

\* (provider, custom_host) of the profiles added; the custom host is chosen so
\* that "<custom_host>-a" is "github.com-x-a", the alias of the github profile x-a
AliasProviders ==
    { [provider |-> "github", custom_host |-> None],
      [provider |-> "gitlab", custom_host |-> None],
      [provider |-> "custom", custom_host |-> "github.com-x"] }

AliasNames == {"a", "x-a"}

\* add_profile for a name and a provider, the external tools succeeding
AliasAdd ==
    \E n \in AliasNames : \E pr \in AliasProviders :
    \E a \in {[ProfileArgs(n, "a@e.com", FALSE, None) EXCEPT !.provider = pr.provider,
                                                             !.custom_host = pr.custom_host]} :
        \E r \in {add_profile(Here, a, AllOk)} :
        /\ Len(r.st.ssh_config.lines) <= MaxLines
        /\ Becomes(r.st)
        /\ last' = [op |-> "add_profile", args |-> a, env |-> AllOk, result |-> r.result,
                    error |-> r.error, steps |-> r.steps]
        /\ UNCHANGED <<e2e, procs>>

\* remove_profile, confirmed or not
AliasRemove ==
    \E name \in AliasNames : \E confirm \in BOOLEAN :
        \E r \in {remove_profile(Here, name, TRUE, confirm, "ok")} :
        /\ Becomes(r.st)
        /\ last' = [op |-> "remove_profile",
                    args |-> [name |-> name, delete_keys |-> TRUE, confirm |-> confirm],
                    env |-> AllOk, result |-> r.result, error |-> r.error, steps |-> r.steps]
        /\ UNCHANGED <<e2e, procs>>

NextAliases == AliasAdd \/ AliasRemove

\* every sequence of add and remove workflows over names and providers
SpecAliases == InitMachine /\ [][NextAliases]_vars

----------------------------------------------------------------------------
(* Removing profiles *)

\* a github profile that is not in the store is added, the external tools succeeding
RemovalAdd ==
    \E a \in {ProfileArgs(n, EmailOf(n), FALSE, None) : n \in {"a", "b"} \ Keys(accounts)} :
        \E r \in {add_profile(Here, a, AllOk)} :
        /\ Len(r.st.ssh_config.lines) <= MaxLines
        /\ Becomes(r.st)
        /\ last' = [op |-> "add_profile", args |-> a, env |-> AllOk, result |-> r.result,
                    error |-> r.error, steps |-> r.steps]
        /\ UNCHANGED <<e2e, procs>>

\* remove_profile, confirmed or not, with or without the keys; deleting a key
\* file works or fails
RemovalRemove ==
    \E name \in {"a", "b"} : \E delete_keys \in BOOLEAN : \E confirm \in BOOLEAN :
    \E unlink \in {"ok", "fail"} :
        \E r \in {remove_profile(Here, name, delete_keys, confirm, unlink)} :
        /\ Becomes(r.st)
        /\ last' = [op |-> "remove_profile",
                    args |-> [name |-> name, delete_keys |-> delete_keys, confirm |-> confirm],
                    env |-> [unlink |-> unlink], result |-> r.result, error |-> r.error,
                    steps |-> r.steps]
        /\ UNCHANGED <<e2e, procs>>

NextRemoval == RemovalAdd \/ RemovalRemove

\* profiles are added and removed, the removal confirmed or not and failing or not
SpecRemoval == InitMachine /\ [][NextRemoval]_vars

----------------------------------------------------------------------------
(* Profiles added again with another key type *)

\* the add_profile calls: a github profile with a key of either type cli.add offers
KeyAddArgs ==
    {[ProfileArgs(n, EmailOf(n), FALSE, None) EXCEPT !.key_type = t] :
        n \in {"a", "b"}, t \in {"ed25519", "rsa"}}

\* a profile that is not in the store is added, the external tools succeeding
KeyAdd ==
    \E a \in {x \in KeyAddArgs : x.name \notin Keys(accounts)} :
        \E r \in {add_profile(Here, a, AllOk)} :
        /\ Len(r.st.ssh_config.lines) <= MaxLines
        /\ Becomes(r.st)
        /\ last' = [op |-> "add_profile", args |-> a, env |-> AllOk, result |-> r.result,
                    error |-> r.error, steps |-> r.steps]
        /\ UNCHANGED <<e2e, procs>>

\* a profile of the store is removed, its keys deleted or kept (mgit remove -k)
KeyRemove ==
    \E name \in Keys(accounts) : \E delete_keys \in BOOLEAN :
        \E r \in {remove_profile(Here, name, delete_keys, TRUE, "ok")} :
        /\ Becomes(r.st)
        /\ last' = [op |-> "remove_profile",
                    args |-> [name |-> name, delete_keys |-> delete_keys, confirm |-> TRUE],
                    env |-> AllOk, result |-> r.result, error |-> r.error, steps |-> r.steps]
        /\ UNCHANGED <<e2e, procs>>

NextKeys == KeyAdd \/ KeyRemove

\* profiles are added, removed with or without their keys, and added again
SpecKeys == InitMachine /\ [][NextKeys]_vars

----------------------------------------------------------------------------
(* Sequences of workflows that all complete *)

\* the add_profile calls: github profiles, the name a being a prefix of ab
CleanAddArgs ==
    {[ProfileArgs(n, EmailOf(n), d, None) EXCEPT !.key_type = t] :
        n \in {"a", "ab"}, d \in BOOLEAN, t \in {"ed25519", "rsa"}}

\* add_profile of a name that is not in the store, completing without error
CleanAdd ==
    \E a \in {x \in CleanAddArgs : x.name \notin Keys(accounts)} :
        \E r \in {add_profile(Here, a, AllOk)} :
        /\ r.result = "ok" /\ ~r.error
        /\ Len(r.st.ssh_config.lines) <= MaxLines
        /\ Becomes(r.st)
        /\ last' = [op |-> "add_profile", args |-> a, env |-> AllOk, result |-> r.result,
                    error |-> r.error, steps |-> r.steps]
        /\ UNCHANGED <<e2e, procs>>

\* a confirmed remove_profile of a name in the store, completing without error
CleanRemove ==
    \E name \in Keys(accounts) : \E delete_keys \in BOOLEAN :
        \E r \in {remove_profile(Here, name, delete_keys, TRUE, "ok")} :
        /\ r.result = "ok" /\ ~r.error
        /\ Becomes(r.st)
        /\ last' = [op |-> "remove_profile",
                    args |-> [name |-> name, delete_keys |-> delete_keys, confirm |-> TRUE],
                    env |-> AllOk, result |-> r.result, error |-> r.error, steps |-> r.steps]
        /\ UNCHANGED <<e2e, procs>>

NextClean == CleanAdd \/ CleanRemove

\* every sequence of add and confirmed remove workflows in which each completes
SpecClean == InitMachine /\ [][NextClean]_vars

----------------------------------------------------------------------------
(* The commands that name a profile *)

\* the profile names the commands are given; b is never added
CommandNames == {"a", "b"}

\* the exit status of the process for a command whose workflow ended with
\* result: a command function that returns makes click exit with 0; cli.add
\* turns ValueError and FileNotFoundError into sys.exit(1), run_command a
\* missing executable as well, and any other exception ends Python with 1
exit_status(result) == IF result = "ok" THEN 0 ELSE 1

\* the URLs cloned
CloneUrls == {"git@github.com:o/repo.git"}

\* mgit add of a new or an existing profile, with a well-formed email or not,
\* the external tools succeeding
CmdAdd ==
    \E a \in {ProfileArgs(n, IF ok THEN EmailOf(n) ELSE "not-an-email", FALSE, None) :
                n \in {"a", "ab"}, ok \in BOOLEAN} :
        \E r \in {add_profile(Here, a, AllOk)} :
        /\ Len(r.st.ssh_config.lines) <= MaxLines
        /\ Becomes(r.st)
        /\ last' = [op |-> "add_profile", args |-> a, env |-> AllOk, result |-> r.result,
                    error |-> r.error, steps |-> r.steps, exit |-> exit_status(r.result)]
        /\ UNCHANGED <<e2e, procs>>

\* mgit remove
CmdRemove ==
    \E name \in CommandNames : \E delete_keys \in BOOLEAN : \E confirm \in BOOLEAN :
        \E r \in {remove_profile(Here, name, delete_keys, confirm, "ok")} :
        /\ Becomes(r.st)
        /\ last' = [op |-> "remove_profile",
                    args |-> [name |-> name, delete_keys |-> delete_keys, confirm |-> confirm],
                    env |-> AllOk, result |-> r.result, error |-> r.error, steps |-> r.steps, exit |-> exit_status(r.result)]
        /\ UNCHANGED <<e2e, procs>>

\* mgit switch, globally or for the repository the tool runs in
CmdSwitch ==
    \E name \in CommandNames : \E scope \in {"global", "local"} :
        \E r \in {switch_profile(Here, name, scope, None, Getcwd, 0)} :
        /\ Becomes(r.st)
        /\ last' = [op |-> "switch_profile",
                    args |-> [name |-> name, scope |-> scope, repo_path |-> None],
                    env |-> AllOk, result |-> r.result, error |-> r.error, steps |-> r.steps, exit |-> exit_status(r.result)]
        /\ UNCHANGED <<e2e, procs>>

\* mgit clone, without destination, into a new directory or into the working
\* tree /r2; git clone succeeds or fails
CmdClone ==
    \E name \in CommandNames : \E repo_url \in CloneUrls :
    \E destination \in {None, "dst", "/r2"} :
    \E clone \in {"ok", "fail"} :
        \E r \in {clone_repo(Here, name, repo_url, destination, clone, Getcwd, 0)} :
        /\ Becomes(r.st)
        /\ last' = [op |-> "clone_repo",
                    args |-> [name |-> name, repo_url |-> repo_url,
                              destination |-> destination],
                    env |-> [clone |-> clone], result |-> r.result, error |-> r.error,
                    steps |-> r.steps, exit |-> exit_status(r.result)]
        /\ UNCHANGED <<e2e, procs>>

\* mgit test; the server accepts the key or not
CmdTest ==
    \E name \in CommandNames : \E ssh \in {"ok", "fail"} :
        \E r \in {test_connection(Here, name, ssh)} :
        /\ Becomes(r.st)
        /\ last' = [op |-> "test_connection", args |-> [name |-> name],
                    env |-> [ssh |-> ssh], result |-> r.result, error |-> r.error,
                    steps |-> r.steps, exit |-> exit_status(r.result)]
        /\ UNCHANGED <<e2e, procs>>

\* mgit workspace; the git config command succeeds or fails
CmdWorkspace ==
    \E name \in CommandNames : \E fail \in {0, 1} :
        \E r \in {setup_workspace(Here, name, "/w", fail)} :
        /\ Becomes(r.st)
        /\ last' = [op |-> "setup_workspace", args |-> [name |-> name, directory |-> "/w"],
                    env |-> [git_fail |-> fail], result |-> r.result, error |-> r.error,
                    steps |-> r.steps, exit |-> exit_status(r.result)]
        /\ UNCHANGED <<e2e, procs>>

NextCommands == CmdAdd \/ CmdRemove \/ CmdSwitch \/ CmdClone \/ CmdTest \/ CmdWorkspace

\* every sequence of commands on a fresh machine
SpecCommands == InitMachine /\ [][NextCommands]_vars

----------------------------------------------------------------------------
(* The Git configuration written for the accounts of the store *)

\* the profiles added: a on github, c on a host of its own
GitAddArgs ==
    { ProfileArgs("a", EmailOf("a"), FALSE, None),
      [ProfileArgs("c", EmailOf("c"), FALSE, None) EXCEPT !.provider = "custom",
                                                          !.custom_host = "git.corp"] }

\* the URLs cloned: of either host, and one whose last segment holds ".git" twice
GitCloneUrls ==
    {"git@github.com:o/repo.git", "git@git.corp:o/repo.git", "git@github.com:o/my.github.io.git"}

\* the paths a local identity is applied to: the directory the tool runs in, a
\* working tree, a directory outside any working tree, a path that does not exist
GitRepoPaths == {None, "/r2", "/d", "/nowhere"}

\* a profile that is not in the store yet is added, the external tools succeeding
GitAdd ==
    \E a \in {x \in GitAddArgs : x.name \notin Keys(accounts)} :
        \E r \in {add_profile(Here, a, AllOk)} :
        /\ Becomes(r.st)
        /\ last' = [op |-> "add_profile", args |-> a, env |-> AllOk, result |-> r.result,
                    error |-> r.error, steps |-> r.steps]
        /\ UNCHANGED <<e2e, procs>>

\* setup_url_rewrite for an account of the store
GitUrlRewrite ==
    \E i \in 1..Len(accounts) :
        \E r \in {setup_url_rewrite(git_global, accounts[i].acct, 0)} :
        /\ git_global' = r.config
        /\ last' = [op |-> "setup_url_rewrite", account |-> accounts[i].acct,
                    result |-> r.result, error |-> r.error, ran |-> r.ran]
        /\ UNCHANGED <<accounts, config_file, ssh_config, ssh_dir, repos, fragments, e2e, procs>>

\* clone_with_account for an account of the store; git clone succeeds or fails
GitClone ==
    \E i \in 1..Len(accounts) : \E repo_url \in GitCloneUrls :
    \E destination \in {None, "dst"} : \E clone \in {"ok", "fail"} :
        \E r \in {clone_with_account(repos, accounts[i].acct, repo_url, destination, clone,
                                     Getcwd, 0)} :
        /\ repos' = r.repos
        /\ last' = [op |-> "clone_with_account", account |-> accounts[i].acct,
                    args |-> [repo_url |-> repo_url, destination |-> destination],
                    env |-> [clone |-> clone], result |-> r.result, url |-> r.url,
                    repo_dir |-> IF "repo_dir" \in DOMAIN r THEN r.repo_dir ELSE None,
                    ran |-> r.ran]
        /\ UNCHANGED <<accounts, config_file, ssh_config, ssh_dir, git_global, fragments,
                       e2e, procs>>

\* set_local_config for an account of the store
GitSetLocal ==
    \E i \in 1..Len(accounts) : \E repo_path \in GitRepoPaths :
        \E r \in {set_local_config(repos, accounts[i].acct, repo_path, Getcwd, 0)} :
        /\ repos' = r.repos
        /\ last' = [op |-> "set_local_config", account |-> accounts[i].acct,
                    args |-> [repo_path |-> repo_path], result |-> r.result, ran |-> r.ran]
        /\ UNCHANGED <<accounts, config_file, ssh_config, ssh_dir, git_global, fragments,
                       e2e, procs>>

\* switch_profile with the local scope
GitSwitchLocal ==
    \E name \in Keys(accounts) : \E repo_path \in GitRepoPaths :
        \E r \in {switch_profile(Here, name, "local", repo_path, Getcwd, 0)} :
        /\ Becomes(r.st)
        /\ last' = [op |-> "switch_profile",
                    args |-> [name |-> name, scope |-> "local", repo_path |-> repo_path],
                    env |-> AllOk, result |-> r.result, error |-> r.error, steps |-> r.steps]
        /\ UNCHANGED <<e2e, procs>>

NextGit == GitAdd \/ GitUrlRewrite \/ GitClone \/ GitSetLocal \/ GitSwitchLocal

\* profiles are added, then used to rewrite URLs, to clone and to set identities
SpecGit == InitMachine /\ [][NextGit]_vars

----------------------------------------------------------------------------
(* End to end: add A, add B as the default, remove A *)

\* the positions of the lines that are exactly t
LinesEqual(lines, t) == {i \in 1..Len(lines) : lines[i] = t}

\* the managed blocks of host_alias: each run of lines from its begin marker line
\* to the next end marker line of the same alias
ManagedBlocks(lines, host_alias) ==
    {SubSeq(lines, i, j) : <<i, j>> \in
        {p \in LinesEqual(lines, BeginMarker(host_alias))
                 \X LinesEqual(lines, EndMarker(host_alias)) :
            /\ p[1] < p[2]
            /\ \A k \in (p[1] + 1)..(p[2] - 1) :
                  lines[k] \notin {BeginMarker(host_alias), EndMarker(host_alias)}}}

InitEndToEnd ==
    /\ accounts = <<>>
    /\ config_file = NoFile
    /\ last = [op |-> "init", result |-> "ok"]
    /\ ssh_config = [exists |-> FALSE, lines |-> <<"">>, mode |-> 0]
    /\ ssh_dir = {}
    /\ git_global = NoGitConfig
    /\ repos = InitRepos
    /\ fragments = [path \in {} |-> <<>>]
    /\ procs = <<>>
    /\ e2e \in {[pc |-> "start", A |-> x, B |-> y, blocksB |-> {}] :
                    x \in ProfileNames, y \in ProfileNames} \ 
               {[pc |-> "start", A |-> x, B |-> x, blocksB |-> {}] : x \in ProfileNames}

\* add(A, github): the scenario moves on when the workflow succeeds and is
\* abandoned when an external tool fails it
E2EAddFirst ==
    /\ e2e.pc = "start"
    /\ \E d \in BOOLEAN : \E kt \in {"ed25519", "rsa"} :
       \E env \in {e \in Envs : e.git_fail = 0} :
       \E a \in {[ProfileArgs(e2e.A, EmailOf(e2e.A), d, None) EXCEPT !.key_type = kt]} :
       \E r \in {add_profile(Here, a, env)} :
          /\ Becomes(r.st)
          /\ last' = [op |-> "add_profile", args |-> a, env |-> env, result |-> r.result,
                      error |-> r.error, steps |-> r.steps]
          /\ UNCHANGED procs
          /\ e2e' = [e2e EXCEPT !.pc = IF r.result = "ok" THEN "added A" ELSE "aborted"]

\* add(B, github, is_default = true)
E2EAddSecond ==
    /\ e2e.pc = "added A"
    /\ \E kt \in {"ed25519", "rsa"} : \E env \in {e \in Envs : e.git_fail = 0} :
       \E a \in {[ProfileArgs(e2e.B, EmailOf(e2e.B), TRUE, None) EXCEPT !.key_type = kt]} :
       \E r \in {add_profile(Here, a, env)} :
          /\ Becomes(r.st)
          /\ last' = [op |-> "add_profile", args |-> a, env |-> env, result |-> r.result,
                      error |-> r.error, steps |-> r.steps]
          /\ UNCHANGED procs
          /\ e2e' = IF r.result = "ok"
                    THEN [e2e EXCEPT !.pc = "added B",
                                     !.blocksB = ManagedBlocks(r.st.ssh_config.lines,
                                                               "github.com-" \o e2e.B)]
                    ELSE [e2e EXCEPT !.pc = "aborted"]

\* remove(A): the scenario ends when the caller confirms
E2ERemoveFirst ==
    /\ e2e.pc = "added B"
    /\ \E delete_keys \in BOOLEAN : \E confirm \in BOOLEAN :
       \E r \in {remove_profile(Here, e2e.A, delete_keys, confirm, "ok")} :
          /\ Becomes(r.st)
          /\ last' = [op |-> "remove_profile",
                      args |-> [name |-> e2e.A, delete_keys |-> delete_keys,
                                confirm |-> confirm],
                      env |-> AllOk, result |-> r.result, error |-> r.error,
                      steps |-> r.steps]
          /\ UNCHANGED procs
          /\ e2e' = IF confirm THEN [e2e EXCEPT !.pc = "removed A"] ELSE e2e

NextEndToEnd == E2EAddFirst \/ E2EAddSecond \/ E2ERemoveFirst

\* the three-step scenario for every pair of distinct profile names
SpecEndToEnd == InitEndToEnd /\ [][NextEndToEnd]_vars

----------------------------------------------------------------------------
(* Two concurrent invocations of `mgit add` *)

\* the invocations
Procs == {1, 2}

\* the machine before the two invocations: fresh, or with the profile z set up
RaceMachines ==
    { State(<<>>, NoFile, [exists |-> FALSE, lines |-> <<"">>, mode |-> 0], {}, NoGitConfig,
            InitRepos, <<>>),
      add_profile(State(<<>>, NoFile, [exists |-> FALSE, lines |-> <<"">>, mode |-> 0], {},
                        NoGitConfig, InitRepos, <<>>),
                  ProfileArgs("z", EmailOf("z"), FALSE, None), AllOk).st }

\* an invocation that has not started: its arguments, nothing loaded or read yet
NotStarted(args) ==
    [pc |-> "start", args |-> args, accounts |-> <<>>, loaded |-> {},
     existing |-> [exists |-> FALSE, lines |-> <<"">>, mode |-> 0],
     private_key |-> None, host_alias |-> None, result |-> None]

\* invocation 1 adds a; invocation 2 adds b or a as well, as the default or not
InitRace ==
    /\ \E m \in RaceMachines :
          /\ config_file = m.config_file
          /\ ssh_config = m.ssh_config
          /\ ssh_dir = m.ssh_dir
          /\ git_global = m.git_global
          /\ repos = m.repos
          /\ fragments = m.fragments
    /\ accounts = <<>>
    /\ last = [op |-> "init", proc |-> 0, result |-> "ok"]
    /\ e2e = [pc |-> "unused"]
    /\ \E n \in {"a", "b"} : \E d \in BOOLEAN :
          procs = [p \in Procs |->
                      IF p = 1 THEN NotStarted(ProfileArgs("a", EmailOf("a"), FALSE, None))
                      ELSE NotStarted(ProfileArgs(n, EmailOf(n), d, None))]

\* pm = ProfileManager() at the start of the invocation: AccountManager._load;
\* loaded keeps the names that were in the document then
RaceLoad(p) ==
    /\ procs[p].pc = "start"
    /\ procs' = [procs EXCEPT ![p].pc = "loaded", ![p].accounts = _load(config_file),
                              ![p].loaded = Keys(_load(config_file))]
    /\ last' = [op |-> "_load", proc |-> p, result |-> "ok"]
    /\ UNCHANGED <<accounts, config_file, ssh_config, ssh_dir, git_global, repos, fragments, e2e>>

\* add_profile up to the read in add_ssh_config_entry: the key is generated
\* (ssh-keygen succeeds) and the whole of ~/.ssh/config is read
RaceReadSshConfig(p) ==
    /\ procs[p].pc = "loaded"
    /\ \E k \in {generate_ssh_key(ssh_dir, procs[p].args.name, procs[p].args.key_type, "ok")} :
          /\ ssh_dir' = k.ssh_dir
          /\ procs' = [procs EXCEPT ![p].pc = "read", ![p].existing = ssh_config,
                                    ![p].private_key = k.ret.private_key]
    /\ last' = [op |-> "_read_ssh_config", proc |-> p, result |-> "ok"]
    /\ UNCHANGED <<accounts, config_file, ssh_config, git_global, repos, fragments, e2e>>

\* the rest of add_ssh_config_entry: the text computed from what was read is written
RaceWriteSshConfig(p) ==
    /\ procs[p].pc = "read"
    /\ \E c \in {add_ssh_config_entry(procs[p].existing, ssh_dir, procs[p].args.name,
                                      procs[p].args.provider, procs[p].args.custom_host)} :
          /\ ssh_config' = c.ssh_config
          /\ procs' = [procs EXCEPT ![p].pc = "written", ![p].host_alias = c.ret]
          /\ last' = [op |-> "add_ssh_config_entry", proc |-> p, result |-> c.result]
    /\ UNCHANGED <<accounts, config_file, ssh_dir, git_global, repos, fragments, e2e>>

\* add_account on the store loaded at the start, _save included; the
\* invocation then ends (ssh-add changes no file)
RaceAddAccount(p) ==
    /\ procs[p].pc = "written"
    /\ \E s \in {add_account(procs[p].accounts, config_file,
                    [name |-> procs[p].args.name, git_username |-> procs[p].args.git_username,
                     git_email |-> procs[p].args.git_email, provider |-> procs[p].args.provider,
                     host_alias |-> procs[p].host_alias,
                     ssh_key_path |-> procs[p].private_key,
                     signing_key |-> procs[p].args.signing_key,
                     custom_host |-> procs[p].args.custom_host,
                     is_default |-> procs[p].args.is_default])} :
          /\ config_file' = s.config_file
          /\ procs' = [procs EXCEPT ![p].pc = "done", ![p].accounts = s.accounts,
                                    ![p].result = s.result]
          /\ last' = [op |-> "add_account", proc |-> p, result |-> s.result]
    /\ UNCHANGED <<accounts, ssh_config, ssh_dir, git_global, repos, fragments, e2e>>

NextRace ==
    \E p \in Procs :
        \/ RaceLoad(p)
        \/ RaceReadSshConfig(p)
        \/ RaceWriteSshConfig(p)
        \/ RaceAddAccount(p)

\* every interleaving of the file accesses of two invocations; nothing locks
SpecRace == InitRace /\ [][NextRace]_vars

----------------------------------------------------------------------------
(* Two concurrent invocations that change the store *)

\* the document before the invocations: none, or one with at most one default
StoreRaceDocuments ==
    { NoFile,
      SaveDoc(<<[key |-> "z", acct |-> StoredAccount("z", TRUE)]>>),
      SaveDoc(<<[key |-> "y", acct |-> StoredAccount("y", TRUE)],
                [key |-> "z", acct |-> StoredAccount("z", FALSE)]>>),
      SaveDoc(<<[key |-> "y", acct |-> StoredAccount("y", FALSE)],
                [key |-> "z", acct |-> StoredAccount("z", FALSE)]>>) }

InitStoreRace ==
    /\ config_file \in StoreRaceDocuments
    /\ accounts = <<>>
    /\ last = [op |-> "init", proc |-> 0, result |-> "ok"]
    /\ ssh_config = [exists |-> FALSE, lines |-> <<"">>, mode |-> 0]
    /\ ssh_dir = {}
    /\ git_global = NoGitConfig
    /\ repos = InitRepos
    /\ fragments = <<>>
    /\ e2e = [pc |-> "unused"]
    /\ procs = [p \in Procs |-> NotStarted(None)]

\* the invocation's store call has run on the store it loaded, _save included
StoreRaceDone(p, op, r) ==
    /\ config_file' = r.config_file
    /\ procs' = [procs EXCEPT ![p].pc = "done", ![p].accounts = r.accounts,
                              ![p].result = r.result]
    /\ last' = [op |-> op, proc |-> p, result |-> r.result]
    /\ UNCHANGED <<accounts, ssh_config, ssh_dir, git_global, repos, fragments, e2e>>

\* add_account on the store loaded at the start of the invocation
StoreRaceAdd(p) ==
    /\ procs[p].pc = "loaded"
    /\ \E n \in {"a", "b"} : \E d \in BOOLEAN :
          StoreRaceDone(p, "add_account",
                        add_account(procs[p].accounts, config_file, StoredAccount(n, d)))

\* remove_account on the store loaded at the start of the invocation
StoreRaceRemove(p) ==
    /\ procs[p].pc = "loaded"
    /\ \E n \in {"y", "z"} :
          StoreRaceDone(p, "remove_account",
                        remove_account(procs[p].accounts, config_file, n))

\* set_default on the store loaded at the start of the invocation
StoreRaceSetDefault(p) ==
    /\ procs[p].pc = "loaded"
    /\ \E n \in {"y", "z"} :
          StoreRaceDone(p, "set_default", set_default(procs[p].accounts, config_file, n))

NextStoreRace ==
    \E p \in Procs :
        \/ RaceLoad(p)
        \/ StoreRaceAdd(p)
        \/ StoreRaceRemove(p)
        \/ StoreRaceSetDefault(p)

\* every interleaving of the loads and the saves of two invocations
SpecStoreRace == InitStoreRace /\ [][NextStoreRace]_vars

----------------------------------------------------------------------------
(* The store under add and set_default *)

DefaultCount(accts) == Cardinality({i \in 1..Len(accts) : accts[i].acct.is_default})

\* C1: after any sequence of add and set_default calls, successful or failing,
\* on a store that starts empty, a non-empty store has exactly one account
\* with is_default = true.
C1_ExactlyOneDefault == accounts # <<>> => DefaultCount(accounts) = 1

\* C1's case: at least two accounts, and a set_default has moved the flag away
\* from the first one
C1_Witness ==
    /\ Len(accounts) >= 2
    /\ last.op = "set_default" /\ last.result = "ok"
    /\ ~accounts[1].acct.is_default
    /\ DefaultCount(accounts) = 1

\* C2: an add on an empty store makes the new record the default even when the
\* caller passed is_default = false, and get_default() then returns that account.
\* (Without remove, a successful add that leaves one record acted on an empty store.)
C2_FirstAddIsDefault ==
    (last.op = "add_account" /\ last.result = "ok" /\ Len(accounts) = 1) =>
        /\ accounts[1].acct.is_default
        /\ get_default_account(accounts) = 1
        /\ accounts[get_default_account(accounts)].acct.name = last.args.name

\* C2's case: the first add was called with is_default = false
C2_Witness ==
    /\ last.op = "add_account" /\ last.result = "ok" /\ Len(accounts) = 1
    /\ last.args.is_default = FALSE
    /\ accounts[1].acct.is_default

\* C8: a store add that fails (invalid name, invalid email, existing name)
\* changes neither the in-memory store nor the persisted document, also when
\* the rejected call passed is_default = true.
C8_FailedAddChangesNothing ==
    [][(last'.op = "add_account" /\ last'.result # "ok") =>
            (accounts' = accounts /\ config_file' = config_file)]_vars

\* C8's case: a duplicate add with is_default = true was rejected while another
\* account was the default, and that account still is
C8_Witness ==
    /\ last.op = "add_account" /\ last.result = "ValueError"
    /\ last.args.name \in Keys(accounts)
    /\ last.args.is_default
    /\ \E i \in 1..Len(accounts) :
          accounts[i].key # last.args.name /\ accounts[i].acct.is_default
    /\ config_file = SaveDoc(accounts)

----------------------------------------------------------------------------
(* The SSH engine's blocks *)

\* C4: remove_config_entry(alias) leaves no line that is a begin or end marker
\* of that alias and leaves the managed blocks of every other alias as they
\* were, also when the removed alias is a textual prefix of another alias.
C4_RemoveKeepsOtherBlocks ==
    [][(last'.op = "remove_ssh_config_entry") =>
          /\ LinesEqual(ssh_config'.lines, BeginMarker(last'.args.host_alias)) = {}
          /\ LinesEqual(ssh_config'.lines, EndMarker(last'.args.host_alias)) = {}
          /\ \A other \in Aliases \ {last'.args.host_alias} :
                ManagedBlocks(ssh_config'.lines, other) = ManagedBlocks(ssh_config.lines, other)]_vars

\* C5: add_config_entry for an alias that has one block, with a key path other
\* than the block's, replaces that block in place: the lines before and after
\* the block are unchanged, exactly one marker pair of the alias remains, and
\* the block carries the new IdentityFile.
C5_ReplaceInPlace ==
    [][(/\ last'.op = "add_ssh_config_entry" /\ last'.result = "ok"
        /\ Cardinality(ManagedBlocks(ssh_config.lines, last'.ret)) = 1
        /\ Cardinality(LinesEqual(ssh_config.lines, BeginMarker(last'.ret))) = 1
        /\ Cardinality(LinesEqual(ssh_config.lines, EndMarker(last'.ret))) = 1
        /\ \A i \in 1..Len(ssh_config.lines) :
              ssh_config.lines[i] #
                  "    IdentityFile " \o _find_key_for_account(ssh_dir, last'.args.account_name))
       =>
       LET old == ssh_config.lines
           new == ssh_config'.lines
           b == CHOOSE i \in 1..Len(old) : old[i] = BeginMarker(last'.ret)
           e == CHOOSE j \in 1..Len(old) : old[j] = EndMarker(last'.ret)
       IN  /\ Cardinality(LinesEqual(new, BeginMarker(last'.ret))) = 1
           /\ Cardinality(LinesEqual(new, EndMarker(last'.ret))) = 1
           /\ \E e2 \in b..Len(new) :
                /\ new[b] = BeginMarker(last'.ret)
                /\ new[e2] = EndMarker(last'.ret)
                /\ \E k \in b..e2 :
                      new[k] = "    IdentityFile "
                                  \o _find_key_for_account(ssh_dir, last'.args.account_name)
                /\ SubSeq(new, 1, b - 1) = SubSeq(old, 1, b - 1)
                /\ SubSeq(new, e2 + 1, Len(new)) = SubSeq(old, e + 1, Len(old))]_vars

\* the host the alias is derived from, as the claim has it
ClaimedHost(provider, custom_host) ==
    CASE provider = "github" -> "github.com"
      [] provider = "gitlab" -> "gitlab.com"
      [] provider = "bitbucket" -> "bitbucket.org"
      [] provider = "custom" -> custom_host

\* C6: the alias add_config_entry returns is "<host>-<account_name>", the host
\* being the built-in provider's host or, for provider = custom, the
\* caller-supplied custom_host.
C6_HostAliasDerivation ==
    (last.op = "add_ssh_config_entry" /\ last.result = "ok") =>
        last.ret = ClaimedHost(last.args.provider, last.args.custom_host)
                      \o "-" \o last.args.account_name

----------------------------------------------------------------------------
(* The workflows *)

\* the account the last call names
Named == accounts[IndexOf(accounts, last.args.name)].acct

\* C3: from an empty store and an empty SSH config, for distinct names A and B
\* on github: after add(A) the store has one record, A is the default and the
\* config has one block for github.com-A; after add(B, is_default = true) A is
\* not the default, B is, and each alias has its block; after a confirmed
\* remove(A) only B is stored, A's block is gone and B's block is as it was.
C3_EndToEnd ==
    /\ e2e.pc = "added A" =>
          /\ Len(accounts) = 1
          /\ accounts[1].acct.name = e2e.A
          /\ accounts[1].acct.is_default
          /\ Cardinality(ManagedBlocks(ssh_config.lines, "github.com-" \o e2e.A)) = 1
    /\ e2e.pc = "added B" =>
          /\ Keys(accounts) = {e2e.A, e2e.B}
          /\ ~accounts[IndexOf(accounts, e2e.A)].acct.is_default
          /\ accounts[IndexOf(accounts, e2e.B)].acct.is_default
          /\ Cardinality(ManagedBlocks(ssh_config.lines, "github.com-" \o e2e.A)) = 1
          /\ Cardinality(ManagedBlocks(ssh_config.lines, "github.com-" \o e2e.B)) = 1
    /\ e2e.pc = "removed A" =>
          /\ Keys(accounts) = {e2e.B}
          /\ ManagedBlocks(ssh_config.lines, "github.com-" \o e2e.A) = {}
          /\ ManagedBlocks(ssh_config.lines, "github.com-" \o e2e.B) = e2e.blocksB
          /\ e2e.blocksB # {}

\* C7: an add whose email is not well formed raises ValidationError, adds no
\* record and creates neither an SSH key file nor an SSH config block, also
\* through the add workflow (here with every external tool succeeding).
C7_BadEmailNoSideEffect ==
    [][(last'.op = "add_profile" /\ ~validate_email(last'.args.git_email)
            /\ last'.env = AllOk) =>
          /\ last'.result = "ValueError"
          /\ accounts' = accounts
          /\ config_file' = config_file
          /\ ssh_dir' = ssh_dir
          /\ ssh_config' = ssh_config]_vars

\* C9: switch(name, scope = global) on an existing account, when it returns,
\* has set the global user.name and user.email to the account's git_username
\* and git_email and has made the account the only default of the store.
C9_SwitchGlobal ==
    (/\ last.op = "switch_profile" /\ last.args.scope = "global"
     /\ last.args.name \in Keys(accounts) /\ last.result = "ok") =>
        /\ git_global["user.name"] = Named.git_username
        /\ git_global["user.email"] = Named.git_email
        /\ Named.is_default
        /\ DefaultCount(accounts) = 1
        /\ config_file = SaveDoc(accounts)

\* C9's case: the account switched to was added second and another one is stored
C9_Witness ==
    /\ last.op = "switch_profile" /\ last.args.scope = "global" /\ last.result = "ok"
    /\ Len(accounts) = 2
    /\ accounts[2].key = last.args.name
    /\ accounts[2].acct.is_default /\ ~accounts[1].acct.is_default
    /\ git_global["user.name"] = accounts[2].acct.git_username
    /\ git_global["user.email"] = accounts[2].acct.git_email

\* the repository a local switch writes to
Target(repo_path) == IF Truthy(repo_path) THEN repo_path ELSE Getcwd

\* C10: switch(name, scope = local), whether it succeeds or fails, changes no
\* account's is_default flag, nor the persisted store, nor the global Git
\* config; of the local configs only the target repository's can change.
C10_SwitchLocalFrame ==
    [][(last'.op = "switch_profile" /\ last'.args.scope = "local") =>
          /\ accounts' = accounts
          /\ config_file' = config_file
          /\ git_global' = git_global
          /\ ssh_config' = ssh_config /\ ssh_dir' = ssh_dir /\ fragments' = fragments
          /\ DOMAIN repos' = DOMAIN repos
          /\ \A path \in DOMAIN repos :
                path # Target(last'.args.repo_path) => repos'[path] = repos[path]]_vars

\* C10's case: a local switch to an account that is not the default has written
\* the identity to the repository, the global identity being another one
C10_Witness ==
    /\ last.op = "switch_profile" /\ last.args.scope = "local" /\ last.result = "ok"
    /\ last.args.name \in Keys(accounts)
    /\ ~Named.is_default
    /\ DefaultCount(accounts) = 1
    /\ repos[Getcwd]["user.name"] = Named.git_username
    /\ repos[Getcwd]["user.email"] = Named.git_email
    /\ git_global["user.name"] # Named.git_username
    /\ repos["/r2"] = NoGitConfig

----------------------------------------------------------------------------
(* One account record *)

\* C11: for every account record with valid field values (signing_key and
\* custom_host absent or set, is_default true or false), from_dict(to_dict(a))
\* is a record and equals a in each of the nine fields.
C11_RoundTrip ==
    last.op = "from_dict" =>
        /\ DOMAIN last.ret = AccountParams
        /\ \A k \in AccountParams : last.ret[k] = last.acct[k]

\* C11's case: a default account without signing key and custom host has been
\* encoded to its nine keys and decoded
C11_Witness ==
    /\ last.op = "from_dict"
    /\ DOMAIN last.data = AccountParams
    /\ last.acct.signing_key = None /\ last.acct.custom_host = None
    /\ last.acct.is_default
    /\ last.ret.is_default /\ last.ret.name = last.acct.name

----------------------------------------------------------------------------
(* The store under all its operations *)

\* the entries of accts other than the one stored under name, in order
Others(accts, name) == SelectSeq(accts, LAMBDA e : e.key # name)

\* C12: remove(name) of an existing account deletes exactly that record and
\* elects no new default: the remaining records keep their fields and their
\* order and are what is persisted, so removing the only default from a store
\* with other accounts leaves a non-empty store without a default.
C12_RemoveElectsNoDefault ==
    [][(last'.op = "remove_account" /\ last'.result = "ok") =>
          /\ last'.args.name \in Keys(accounts)
          /\ accounts' = Others(accounts, last'.args.name)
          /\ Len(accounts') = Len(accounts) - 1
          /\ config_file' = SaveDoc(accounts')
          /\ (/\ Len(accounts) > 1
              /\ accounts[IndexOf(accounts, last'.args.name)].acct.is_default
              /\ DefaultCount(accounts) = 1)
             => (accounts' # <<>> /\ DefaultCount(accounts') = 0)]_vars

\* C12's case: the only default of a store of two accounts was removed; the
\* other account is still stored and is not the default
C12_Witness ==
    /\ last.op = "remove_account" /\ last.result = "ok"
    /\ Len(last.before) = 2
    /\ DefaultCount(last.before) = 1
    /\ last.before[IndexOf(last.before, last.args.name)].acct.is_default
    /\ Len(accounts) = 1
    /\ ~accounts[1].acct.is_default
    /\ get_default_account(accounts) = 1

\* the keys of the accounts flagged as default
Flagged(accts) == {accts[i].key : i \in {j \in 1..Len(accts) : accts[j].acct.is_default}}

\* the first element of seq that is in S
FirstIn(seq, S) == seq[CHOOSE i \in 1..Len(seq) : seq[i] \in S /\ \A j \in 1..(i - 1) : seq[j] \notin S]

\* the keys of accts in iteration order
KeySeq(accts) == [i \in 1..Len(accts) |-> accts[i].key]

\* C13 as stated: get_default() returns the first flagged record in insertion
\* order (the order in which the accounts were added), the first record added
\* when none is flagged, and absent only for an empty store.
C13_FirstInInsertionOrder ==
    last.op = "get_default_account" =>
        /\ (last.ret = None) <=> (accounts = <<>>)
        /\ Flagged(accounts) # {} => last.ret = FirstIn(e2e.added, Flagged(accounts))
        /\ (accounts # <<>> /\ Flagged(accounts) = {}) => last.ret = e2e.added[1]

\* C13 amended: get_default() returns the first flagged record in the store's
\* iteration order, the first record in iteration order when none is flagged,
\* and absent only for an empty store; a store loaded from the document
\* iterates in the order of the document's keys, which is sorted.
C13_FirstInIterationOrder ==
    /\ last.op = "get_default_account" =>
          /\ (last.ret = None) <=> (accounts = <<>>)
          /\ Flagged(accounts) # {} => last.ret = FirstIn(KeySeq(accounts), Flagged(accounts))
          /\ (accounts # <<>> /\ Flagged(accounts) = {}) => last.ret = accounts[1].key
    /\ last.op = "_load" =>
          \A i \in 1..Len(accounts) : \A j \in (i + 1)..Len(accounts) :
              StrLess(accounts[i].key, accounts[j].key)

\* C13's case: get_default on a loaded store of two unflagged accounts, the
\* one added second standing first
C13_Witness ==
    /\ last.op = "get_default_account"
    /\ Len(accounts) = 2 /\ Flagged(accounts) = {}
    /\ e2e.added = <<accounts[2].key, accounts[1].key>>
    /\ last.ret = accounts[1].key

\* C14: remove, set_default and update called with a name that is not in the
\* store fail with KeyError (not found) and change neither the store in memory
\* nor the persisted document.
C14_UnknownNameChangesNothing ==
    [][(/\ last'.op \in {"remove_account", "set_default", "update_account"}
        /\ last'.args.name \notin Keys(accounts)) =>
          /\ last'.result = "KeyError"
          /\ accounts' = accounts
          /\ config_file' = config_file]_vars

\* C14's case: set_default of an unknown name was rejected while one of two
\* stored accounts is the default
C14_Witness ==
    /\ last.op = "set_default" /\ last.result = "KeyError"
    /\ last.args.name \notin Keys(accounts)
    /\ Len(accounts) = 2
    /\ DefaultCount(accounts) = 1
    /\ config_file = SaveDoc(accounts)

----------------------------------------------------------------------------
(* The SSH engine and the content it does not own *)

\* the lines of a text given as content.split("\n"): the element after a final
\* newline is no line
TextLines(lines) ==
    IF lines # <<>> /\ lines[Len(lines)] = "" THEN SubSeq(lines, 1, Len(lines) - 1) ELSE lines

\* the lines from position i on that lie outside the marker pairs of host_alias
RECURSIVE OutsideFrom(_, _, _, _)
OutsideFrom(lines, i, inside, host_alias) ==
    IF i > Len(lines) THEN <<>>
    ELSE IF lines[i] = BeginMarker(host_alias) THEN OutsideFrom(lines, i + 1, TRUE, host_alias)
    ELSE IF lines[i] = EndMarker(host_alias) THEN OutsideFrom(lines, i + 1, FALSE, host_alias)
    ELSE IF inside THEN OutsideFrom(lines, i + 1, inside, host_alias)
    ELSE <<lines[i]>> \o OutsideFrom(lines, i + 1, inside, host_alias)

\* the lines of the file outside the marker pairs of host_alias, in order
Outside(cfg, host_alias) == OutsideFrom(TextLines(_read_ssh_config(cfg)), 1, FALSE, host_alias)

\* s is a subsequence of t: the elements of s occur in t, in the same order
RECURSIVE IsSubseq(_, _)
IsSubseq(s, t) ==
    IF s = <<>> THEN TRUE
    ELSE IF t = <<>> THEN FALSE
    ELSE IF Head(s) = Head(t) THEN IsSubseq(Tail(s), Tail(t))
    ELSE IsSubseq(s, Tail(t))

\* the alias the last call edited: the one add_ssh_config_entry returned, or
\* the one passed to remove_ssh_config_entry
Edited(l) == IF l.op = "add_ssh_config_entry" THEN l.ret ELSE l.args.host_alias

\* C15: after add_config_entry or remove_config_entry, every line that was
\* outside the marker pair of the alias edited (user stanzas, comments, blank
\* lines, the blocks of other aliases) is still in the file, unchanged and in
\* the same relative order.
C15_OutsideLinesKept ==
    [][(\/ last'.op = "add_ssh_config_entry" /\ last'.result = "ok"
        \/ last'.op = "remove_ssh_config_entry") =>
          IsSubseq(Outside(ssh_config, Edited(last')),
                   TextLines(_read_ssh_config(ssh_config')))]_vars

\* C16: after an add_config_entry call that returns an alias the file holds a
\* managed block for that alias; when the alias had no marker pair before, the
\* block stands at the end, after the existing content and one blank line,
\* also when the alias text occurs elsewhere in the file.
C16_BlockPresentAfterAdd ==
    [][(last'.op = "add_ssh_config_entry" /\ last'.result = "ok") =>
          LET old == TextLines(_read_ssh_config(ssh_config))
              new == TextLines(_read_ssh_config(ssh_config'))
              alias == last'.ret
          IN  /\ ManagedBlocks(new, alias) # {}
              /\ (LinesEqual(old, BeginMarker(alias)) = {} /\ LinesEqual(old, EndMarker(alias)) = {})
                 => \E block \in ManagedBlocks(new, alias) :
                       new = RStripNewlines(old \o <<"">>) \o <<"">> \o block]_vars

\* account_name has a private key file of one of the supported key types
HasKey(dir, account_name) ==
    \E t \in 1..Len(KEY_TYPES) : KeyFilename(KEY_TYPES[t], account_name) \in dir

\* C17: add_config_entry fails with ValueError (validation) when provider is
\* custom and no custom host is given, and otherwise with FileNotFoundError
\* (not found) when the account has no private key file of any supported type;
\* in both cases the SSH config file is not written.
C17_AddEntryErrors ==
    [][last'.op = "add_ssh_config_entry" =>
          /\ (last'.args.provider = "custom" /\ last'.args.custom_host = None)
             => (last'.result = "ValueError" /\ ssh_config' = ssh_config)
          /\ (/\ ~(last'.args.provider = "custom" /\ last'.args.custom_host = None)
              /\ ~HasKey(ssh_dir, last'.args.account_name))
             => (last'.result = "FileNotFoundError" /\ ssh_config' = ssh_config)]_vars

\* C17's case: a custom provider without host was rejected although the
\* account has a key, and the user's file still has the permissions it had
C17_Witness ==
    /\ last.op = "add_ssh_config_entry" /\ last.result = "ValueError"
    /\ last.args.provider = "custom" /\ last.args.custom_host = None
    /\ HasKey(ssh_dir, last.args.account_name)
    /\ ssh_config.exists /\ ssh_config.mode = 420

\* C18: remove_config_entry(alias) on a file without a marker pair of that
\* alias raises no error and leaves the content of the file as it was.
C18_RemoveAbsentIsNoOp ==
    [][(/\ last'.op = "remove_ssh_config_entry"
        /\ LinesEqual(_read_ssh_config(ssh_config), BeginMarker(last'.args.host_alias)) = {}
        /\ LinesEqual(_read_ssh_config(ssh_config), EndMarker(last'.args.host_alias)) = {}) =>
          /\ last'.result = "ok"
          /\ _read_ssh_config(ssh_config') = _read_ssh_config(ssh_config)
          /\ ssh_config'.exists = ssh_config.exists]_vars

----------------------------------------------------------------------------
(* Concurrent invocations *)

\* the names of the accounts in the persisted document
Persisted == IF config_file.exists THEN DOMAIN config_file.accounts ELSE {}

\* C19: of two concurrent invocations that each read the document (the SSH
\* config) in full and later rewrite it in full, the later writer discards the
\* earlier writer's change: after p's save the document holds the accounts p
\* had loaded and p's own, so the account q saved after p had loaded is gone, and after
\* p's write of the SSH config the block q wrote after p had read is gone.
C19_LaterWriterDiscards ==
    \A p \in Procs : \A q \in Procs \ {p} :
        /\ (last.op = "add_account" /\ last.proc = p /\ last.result = "ok") =>
              /\ Persisted = procs[p].loaded \cup {procs[p].args.name}
              /\ (/\ procs[q].pc = "done" /\ procs[q].result = "ok"
                  /\ procs[q].args.name \notin procs[p].loaded \cup {procs[p].args.name})
                 => procs[q].args.name \notin Persisted
        /\ (/\ last.op = "add_ssh_config_entry" /\ last.proc = p
            /\ procs[q].pc \in {"written", "done"}
            /\ procs[q].host_alias # procs[p].host_alias
            /\ ~InText(_read_ssh_config(procs[p].existing), procs[q].host_alias)) =>
              ManagedBlocks(ssh_config.lines, procs[q].host_alias) = {}

\* C19's case: both invocations have ended without an error, invocation 1
\* wrote first, and neither its account nor its SSH block is left
C19_Witness ==
    /\ procs[1].pc = "done" /\ procs[2].pc = "done"
    /\ procs[1].result = "ok" /\ procs[2].result = "ok"
    /\ procs[1].args.name # procs[2].args.name
    /\ procs[1].args.name \notin Persisted
    /\ procs[2].args.name \in Persisted
    /\ ManagedBlocks(ssh_config.lines, procs[1].host_alias) = {}
    /\ ManagedBlocks(ssh_config.lines, procs[2].host_alias) # {}

----------------------------------------------------------------------------
(* Commands given an unknown profile name *)

\* C20: clone, workspace, test-connection, switch and remove called with a
\* profile name that is not in the store report not-found and return; the
\* store, the persisted document, the SSH config, the key files and the Git
\* configs are unchanged and no step that runs an external command is taken.
C20_UnknownProfileNoSideEffect ==
    [][(/\ last'.op \in {"clone_repo", "setup_workspace", "test_connection",
                         "switch_profile", "remove_profile"}
        /\ last'.args.name \notin Keys(accounts)) =>
          /\ last'.error /\ last'.result = "ok"
          /\ last'.steps = <<>>
          /\ UNCHANGED <<accounts, config_file, ssh_config, ssh_dir, git_global, repos,
                         fragments>>]_vars

\* C20's case: a clone for an unknown profile was refused on a machine that has
\* another profile, git clone being ready to succeed
C20_Witness ==
    /\ last.op = "clone_repo"
    /\ last.args.name \notin Keys(accounts)
    /\ accounts # <<>>
    /\ last.env.clone = "ok"
    /\ last.error /\ last.steps = <<>>
    /\ DOMAIN repos = DOMAIN InitRepos

----------------------------------------------------------------------------
(* The exit status of the commands *)

\* the commands that look a profile up by name
LookupOps == {"remove_profile", "switch_profile", "clone_repo", "test_connection", "setup_workspace"}

\* C21: every validation, duplicate or lookup failure (unknown profile name in
\* remove, switch, clone, test or workspace; invalid or duplicate profile in
\* add) ends the invocation with a message and a non-zero exit status.
C21_FailureExitsNonZero ==
    [][/\ (last'.op \in LookupOps /\ last'.args.name \notin Keys(accounts))
          => (last'.error /\ last'.exit # 0)
       /\ (/\ last'.op = "add_profile"
           /\ \/ ~validate_email(last'.args.git_email)
              \/ ~validate_account_name(last'.args.name)
              \/ last'.args.name \in Keys(accounts))
          => last'.exit # 0]_vars

----------------------------------------------------------------------------
(* Loading a malformed document *)

\* the document is not a store document: it is no YAML, or one of its records
\* cannot be made an Account
Malformed(file) ==
    /\ file.exists
    /\ \/ YamlError(file)
       \/ \E k \in DOMAIN file.accounts : "error" \in DOMAIN from_dict(file.accounts[k])

\* C22: loading the store from a malformed persisted document does not abort:
\* the store starts empty in memory with a warning and the load leaves the
\* document as it was; the first successful mutation after it rewrites the
\* document with only the in-memory records.
C22_MalformedLoadsEmpty ==
    [][/\ (last'.op = "AccountManager") => config_file' = config_file
       /\ (last'.op = "AccountManager" /\ Malformed(config_file))
          => (last'.result = "ok" /\ last'.warned /\ accounts' = <<>>)
       /\ (/\ last'.op \in {"add_account", "remove_account", "set_default", "update_account"}
           /\ last'.result = "ok")
          => config_file' = SaveDoc(accounts')]_vars

----------------------------------------------------------------------------
(* The document and the store in memory *)

\* the store as a set of records, each under its key
Entries(accts) == {accts[i] : i \in 1..Len(accts)}

MutationOps == {"add_account", "remove_account", "set_default", "update_account"}

\* C23: after every successful add, remove, set_default or update the
\* persisted document has version 1.0 and holds exactly the in-memory records,
\* so a store freshly loaded from it has the same records under the same keys
\* as the store in memory, is_default flags included.
C23_PersistedEqualsMemory ==
    (last.op \in MutationOps /\ last.result = "ok") =>
        /\ config_file.exists /\ config_file.version = "1.0"
        /\ DOMAIN config_file.accounts = Keys(accounts)
        /\ \A i \in 1..Len(accounts) :
              config_file.accounts[accounts[i].key] = to_dict(accounts[i].acct)
        /\ AccountManager(config_file).result = "ok"
        /\ Entries(AccountManager(config_file).accounts) = Entries(accounts)

\* C23's case: a second account was added as the default; a fresh load finds
\* the first account's flag cleared and the new account as the only default
C23_Witness ==
    /\ last.op = "add_account" /\ last.result = "ok" /\ last.args.is_default
    /\ Len(accounts) = 2
    /\ accounts[2].key = last.args.name
    /\ \E l \in {AccountManager(config_file).accounts} :
          /\ Len(l) = 2
          /\ DefaultCount(l) = 1
          /\ l[IndexOf(l, last.args.name)].acct.is_default
          /\ ~l[IndexOf(l, accounts[1].key)].acct.is_default

----------------------------------------------------------------------------
(* Host aliases *)

\* C24: after any sequence of add and remove workflows, no two accounts in the
\* store have the same host_alias.
C24_HostAliasUnique ==
    \A i \in 1..Len(accounts) : \A j \in 1..Len(accounts) :
        i # j => accounts[i].acct.host_alias # accounts[j].acct.host_alias

\* C24's case: the github profile x-a and the custom profile a with the host
\* github.com-x are both stored, under different aliases
C24_Witness ==
    /\ last.op = "add_profile" /\ last.result = "ok"
    /\ Len(accounts) = 2
    /\ \E i \in 1..2 : \E j \in 1..2 :
          /\ accounts[i].acct.name = "x-a" /\ accounts[i].acct.provider = "github"
          /\ accounts[i].acct.host_alias = "github.com-x-a"
          /\ accounts[j].acct.name = "a" /\ accounts[j].acct.provider = "custom"
          /\ accounts[j].acct.custom_host = "github.com-x"
          /\ accounts[j].acct.host_alias # accounts[i].acct.host_alias

----------------------------------------------------------------------------
(* The steps of the add workflow *)

\* the steps of add_profile, in the order of the code
ADD_STEPS ==
    <<"generate_ssh_key", "add_ssh_config_entry", "add_account", "add_key_to_agent",
      "setup_conditional_include">>

\* C25: add_profile runs generate_key, add_config_entry, store.add,
\* add_key_to_agent and, when a workspace is given, conditional_include in
\* that order; when step k fails no later step runs and what the steps before
\* k did stays: the key files after step 1, the SSH config as step 2 wrote it,
\* the account record after step 3.
C25_AddStepsNoRollback ==
    [][last'.op = "add_profile" =>
          LET n == Len(last'.steps)
              a == last'.args
              failed == last'.result # "ok"
              done == IF failed THEN n - 1 ELSE n
          IN  /\ n >= 1 /\ last'.steps = SubSeq(ADD_STEPS, 1, n)
              /\ ~failed => n = (IF Truthy(a.workspace_dir) THEN 5 ELSE 4)
              /\ done >= 1 => /\ KeyFilename(a.key_type, a.name) \in ssh_dir'
                              /\ ssh_dir \subseteq ssh_dir'
              /\ done >= 2 =>
                    ssh_config' = add_ssh_config_entry(ssh_config, ssh_dir', a.name, a.provider,
                                                       a.custom_host).ssh_config
              /\ done >= 3 => /\ a.name \in Keys(accounts') \ Keys(accounts)
                              /\ config_file' = SaveDoc(accounts')
              /\ done < 1 => ssh_dir' = ssh_dir
              /\ done < 2 => ssh_config' = ssh_config
              /\ done < 3 => (accounts' = accounts /\ config_file' = config_file)
              /\ n < 5 => (git_global' = git_global /\ fragments' = fragments)
              /\ repos' = repos]_vars

\* C25's case: the store rejected the account at step 3 (bad email); the key
\* file and the SSH block made by steps 1 and 2 exist without an account record
C25_Witness ==
    /\ last.op = "add_profile" /\ last.result = "ValueError"
    /\ last.steps = SubSeq(ADD_STEPS, 1, 3)
    /\ last.args.name \notin Keys(accounts)
    /\ KeyFilename(last.args.key_type, last.args.name) \in ssh_dir
    /\ ManagedBlocks(ssh_config.lines, "github.com-" \o last.args.name) # {}

----------------------------------------------------------------------------
(* The steps of the remove workflow *)

\* the steps of a confirmed remove_profile, in the order of the code
REMOVE_STEPS(delete_keys) ==
    <<"remove_ssh_config_entry">>
    \o (IF delete_keys THEN <<"remove_ssh_keys">> ELSE <<>>)
    \o <<"remove_account">>

\* C26: remove_profile of an existing profile changes nothing unless the
\* caller confirms; once confirmed it runs remove_config_entry(host_alias),
\* then remove_ssh_keys only when key deletion was requested, then
\* store.remove, in that order; when deleting the keys fails, the SSH config
\* stays as remove_config_entry left it and the account stays stored.
C26_RemoveStepsAfterConfirm ==
    [][(last'.op = "remove_profile" /\ last'.args.name \in Keys(accounts)) =>
          LET a == last'.args
              alias == accounts[IndexOf(accounts, a.name)].acct.host_alias
              n == Len(last'.steps)
          IN  /\ ~a.confirm =>
                    /\ last'.steps = <<>>
                    /\ UNCHANGED <<accounts, config_file, ssh_config, ssh_dir, git_global,
                                   repos, fragments>>
              /\ a.confirm =>
                    /\ n >= 1 /\ last'.steps = SubSeq(REMOVE_STEPS(a.delete_keys), 1, n)
                    /\ ssh_config' = remove_ssh_config_entry(ssh_config, alias).ssh_config
                    /\ last'.result = "ok" =>
                          /\ last'.steps = REMOVE_STEPS(a.delete_keys)
                          /\ ssh_dir' = (IF a.delete_keys THEN remove_ssh_keys(ssh_dir, a.name)
                                         ELSE ssh_dir)
                          /\ accounts' = Others(accounts, a.name)
                          /\ config_file' = SaveDoc(accounts')
                    /\ last'.result # "ok" =>
                          /\ last'.steps[n] = "remove_ssh_keys"
                          /\ accounts' = accounts /\ config_file' = config_file
                    /\ UNCHANGED <<git_global, repos, fragments>>]_vars

\* C26's case: a confirmed remove with key deletion failed at the key files;
\* the account is still stored and has its key, but its SSH block is gone
C26_Witness ==
    /\ last.op = "remove_profile" /\ last.args.confirm /\ last.args.delete_keys
    /\ last.result = "PermissionError"
    /\ last.steps = <<"remove_ssh_config_entry", "remove_ssh_keys">>
    /\ last.args.name \in Keys(accounts)
    /\ HasKey(ssh_dir, last.args.name)
    /\ ~InText(ssh_config.lines, Named.host_alias)

----------------------------------------------------------------------------
(* The marker pairs of the SSH config *)

\* the line is a begin marker (an end marker) of some alias
IsBeginMarker(line) == StartsWith(line, BeginMarker(""))

IsEndMarker(line) == StartsWith(line, EndMarker(""))

\* the alias a marker line names
MarkerAlias(line) ==
    IF IsBeginMarker(line) THEN SubSeq(line, Len(BeginMarker("")) + 1, Len(line))
    ELSE SubSeq(line, Len(EndMarker("")) + 1, Len(line))

\* C27: starting from an SSH config with no mgit markers, after any sequence
\* of add_config_entry and remove_config_entry calls each alias's begin marker
\* and end marker appear at most once, every begin marker is followed by the
\* end marker of its alias, and no marker stands between the two.
C27_MarkerPairsWellFormed ==
    LET lines == ssh_config.lines
        markers == {i \in 1..Len(lines) : IsBeginMarker(lines[i]) \/ IsEndMarker(lines[i])}
    IN  /\ \A i \in markers : \A j \in markers : lines[i] = lines[j] => i = j
        /\ \A i \in markers :
              IsBeginMarker(lines[i]) =>
                  \E j \in markers :
                      /\ j > i
                      /\ lines[j] = EndMarker(MarkerAlias(lines[i]))
                      /\ \A k \in markers : ~(i < k /\ k < j)
        /\ \A j \in markers :
              IsEndMarker(lines[j]) =>
                  \E i \in markers :
                      /\ i < j
                      /\ lines[i] = BeginMarker(MarkerAlias(lines[j]))
                      /\ \A k \in markers : ~(i < k /\ k < j)

----------------------------------------------------------------------------
(* A block without end marker *)

\* a begin marker of host_alias has no end marker of host_alias after it
Unterminated(lines, host_alias) ==
    \E i \in LinesEqual(lines, BeginMarker(host_alias)) :
        \A j \in LinesEqual(lines, EndMarker(host_alias)) : j < i

\* C28: when the SSH config has a begin marker of an alias with no matching
\* end marker, removing that alias's block is reported as a ParseError and
\* leaves the file unchanged, and no add_config_entry for that alias succeeds
\* (it is a ParseError as well); the lines from the begin marker to the end of
\* the file are not dropped.
C28_UnterminatedIsParseError ==
    [][/\ (/\ last'.op = "remove_ssh_config_entry"
           /\ Unterminated(ssh_config.lines, last'.args.host_alias))
          => (last'.result = "ParseError" /\ ssh_config' = ssh_config)
       /\ (last'.op = "add_ssh_config_entry" /\ last'.result = "ok")
          => ~Unterminated(ssh_config.lines, last'.ret)]_vars

----------------------------------------------------------------------------
(* Generating a key that exists *)

\* C29: when the private key file id_<type>_<account_name> exists,
\* generate_key runs no key-generation command, leaves the key files as they
\* are, raises no error and returns the (private, public) paths that a fresh
\* generation returns.
C29_GenerateKeyIdempotent ==
    [][last'.op = "generate_ssh_key" =>
          LET a == last'.args
              key_filename == KeyFilename(a.key_type, a.account_name)
              paths == [private_key |-> SSH_DIR \o "/id_" \o a.key_type \o "_" \o a.account_name,
                        public_key |-> SSH_DIR \o "/id_" \o a.key_type \o "_" \o a.account_name
                                          \o ".pub"]
          IN  /\ key_filename \in ssh_dir =>
                    /\ ~last'.ran_keygen
                    /\ ssh_dir' = ssh_dir
                    /\ last'.result = "ok"
                    /\ last'.ret = paths
              /\ (key_filename \notin ssh_dir /\ last'.result = "ok") =>
                    /\ last'.ran_keygen
                    /\ last'.ret = paths
                    /\ ssh_dir' = ssh_dir \cup {key_filename, key_filename \o ".pub"}]_vars

\* C29's case: generate_key was called for a key file that exists, at a time
\* when ssh-keygen would have failed; it returned without error
C29_Witness ==
    /\ last.op = "generate_ssh_key" /\ last.result = "ok"
    /\ ~last.ran_keygen
    /\ last.env.keygen = "fail"
    /\ KeyFilename(last.args.key_type, last.args.account_name) \in ssh_dir
    /\ last.ret.private_key = KeyPath(KeyFilename(last.args.key_type, last.args.account_name))

----------------------------------------------------------------------------
(* Cloning with a profile *)

\* the identity set_local_config writes for account over the config cfg
LocalIdentity(cfg, account) == RunGitConfig(cfg, IdentityCommands(account), 1, 0).config

\* the directory the clone of the last call goes to
CloneTarget(l) ==
    IF Truthy(l.args.destination) THEN l.args.destination ELSE "repo"

\* C30: clone_with_account writes the account's local identity to the cloned
\* directory only after git clone has succeeded; when the clone fails (the
\* command exits non-zero, here also because the target exists) no local Git
\* config is written.
C30_LocalConfigAfterClone ==
    [][(last'.op = "clone_repo" /\ last'.args.name \in Keys(accounts)) =>
          LET account == accounts[IndexOf(accounts, last'.args.name)].acct
              dir == CloneTarget(last')
          IN  IF last'.env.clone = "fail" \/ dir \in DOMAIN repos
              THEN /\ last'.result = "CalledProcessError"
                   /\ repos' = repos
              ELSE /\ last'.result = "ok"
                   /\ repos' = SetKey(repos, dir, LocalIdentity(NoGitConfig, account))
                   /\ repos'[dir]["user.name"] = account.git_username
                   /\ repos'[dir]["user.email"] = account.git_email]_vars

\* C30's case: a clone into the existing working tree /r2 failed for a stored
\* profile; /r2 has no identity of its own, the profile's neither
C30_Witness ==
    /\ last.op = "clone_repo" /\ last.args.name \in Keys(accounts)
    /\ last.args.destination = "/r2"
    /\ last.result = "CalledProcessError"
    /\ repos["/r2"] = NoGitConfig
    /\ "repo" \in DOMAIN repos /\ repos["repo"]["user.name"] = Named.git_username

----------------------------------------------------------------------------
(* URL rewriting and the cloned directory *)

\* the prefix the claim has rewritten, and what it becomes, for an account
HostPrefix(account) == "git@" \o Str(ClaimedHost(account.provider, account.custom_host)) \o ":"

AliasPrefix(account) == "git@" \o account.host_alias \o ":"

\* C31: for an account whose host can be resolved (a built-in provider, or
\* provider = custom with a custom_host) clone_with_account rewrites the prefix
\* git@<host>: of the URL to git@<host_alias>:, and setup_url_rewrite registers
\* the rule from git@<host>: to git@<host_alias>: without reporting an error;
\* it reports an error and registers nothing only when there is no host.
C31_UrlRewrite ==
    [][/\ last'.op = "clone_with_account" =>
             last'.url = Replace(last'.args.repo_url, HostPrefix(last'.account),
                                 AliasPrefix(last'.account))
       /\ last'.op = "setup_url_rewrite" =>
             IF ClaimedHost(last'.account.provider, last'.account.custom_host) # None
             THEN /\ ~last'.error
                  /\ git_global' = SetKey(git_global,
                                          "url." \o AliasPrefix(last'.account) \o ".insteadOf",
                                          HostPrefix(last'.account))
             ELSE last'.error /\ git_global' = git_global]_vars

\* a final ".git" removed from a path segment, the rest kept
StripGitSuffix(segment) ==
    IF Len(segment) >= 4 /\ SubSeq(segment, Len(segment) - 3, Len(segment)) = ".git"
    THEN SubSeq(segment, 1, Len(segment) - 4)
    ELSE segment

\* C32: the directory in which clone_with_account applies the local identity
\* is the destination when one is given, otherwise the last path segment of
\* the URL without a final ".git"; a ".git" elsewhere in the segment is kept.
C32_ClonedDirectory ==
    (last.op = "clone_with_account" /\ last.repo_dir # None) =>
        last.repo_dir = IF Truthy(last.args.destination) THEN last.args.destination
                        ELSE StripGitSuffix(AfterLast(last.url, {"/"}))

----------------------------------------------------------------------------
(* Writing the SSH config file *)

\* C33: every add_ssh_config_entry or remove_ssh_config_entry call that writes
\* the SSH config leaves a file that exists with permission bits 0600, whatever
\* the bits were before (the user's own file has 0644); a call that does not
\* write (an add that raises, a remove of an alias not in the text) leaves the
\* file and its bits as they were.
C33_WrittenWithMode0600 ==
    [][LET wrote ==
              \/ last'.op = "add_ssh_config_entry" /\ last'.result = "ok"
              \/ /\ last'.op = "remove_ssh_config_entry"
                 /\ InText(_read_ssh_config(ssh_config), last'.args.host_alias)
       IN  (last'.op \in {"add_ssh_config_entry", "remove_ssh_config_entry"}) =>
              IF wrote
              THEN ssh_config'.exists /\ ssh_config'.mode = MODE_0600
              ELSE ssh_config' = ssh_config]_vars

\* C33's case: the first call that wrote the user's own file (bits 0644) was a
\* remove; the text is the user's and the bits are 0600
C33_Witness ==
    /\ last.op = "remove_ssh_config_entry"
    /\ ssh_config.exists /\ ssh_config.mode = MODE_0600
    /\ ssh_config.lines = <<"Host github.com-a", "    User git", "">>

----------------------------------------------------------------------------
(* A local identity outside a working tree *)

\* C34: set_local_config, called directly or by switch_profile with the local
\* scope, on a path that is not inside a Git working tree fails with
\* RuntimeError("Not a git repository") before any git config command has run:
\* no local and no global config value changes.
C34_NotARepository ==
    [][(/\ last'.op \in {"set_local_config", "switch_profile"}
        /\ ~is_git_repo(repos, Target(last'.args.repo_path))) =>
          /\ last'.result = "RuntimeError"
          /\ repos' = repos
          /\ git_global' = git_global]_vars

----------------------------------------------------------------------------
(* The key of a profile *)

\* the IdentityFile values in the managed blocks of host_alias
IdentityFiles(lines, host_alias) ==
    {SubSeq(b[k], 18, Len(b[k])) :
        <<b, k>> \in {p \in ManagedBlocks(lines, host_alias) \X (1..Len(lines)) :
                         /\ p[2] <= Len(p[1])
                         /\ StartsWith(p[1][p[2]], "    IdentityFile ")}}

\* C35: after any sequence of add_profile and remove_profile calls -- a name
\* removed with its keys kept and added again with another key type included --
\* the ssh_key_path of every account record is the IdentityFile of the managed
\* block of the account's host_alias.
C35_KeyPathIsIdentityFile ==
    \A i \in 1..Len(accounts) :
        IdentityFiles(ssh_config.lines, accounts[i].acct.host_alias)
            = {accounts[i].acct.ssh_key_path}

----------------------------------------------------------------------------
(* Blocks and accounts *)

\* the aliases that have a begin marker line in the SSH config
BlockAliases(lines) == {MarkerAlias(lines[i]) : i \in {k \in 1..Len(lines) : IsBeginMarker(lines[k])}}

\* C36: after any sequence of add_profile and confirmed remove_profile calls
\* that each complete without error, from an empty store and an SSH config
\* without managed blocks, the aliases with a managed block are the host_alias
\* values of the accounts of the store, with one block for each account.
C36_BlocksMatchAccounts ==
    /\ BlockAliases(ssh_config.lines) = {accounts[i].acct.host_alias : i \in 1..Len(accounts)}
    /\ \A i \in 1..Len(accounts) :
          Cardinality(ManagedBlocks(ssh_config.lines, accounts[i].acct.host_alias)) = 1

----------------------------------------------------------------------------
(* An add that is rejected *)

\* C37: an add_profile call that is rejected because the profile name exists
\* already leaves the SSH config file and the key directory exactly as they
\* were before the call, whatever provider (and host) the rejected call names.
C37_RejectedAddChangesNoFile ==
    [][(last'.op = "add_profile" /\ last'.args.name \in Keys(accounts)) =>
          /\ last'.result = "ValueError"
          /\ accounts' = accounts /\ config_file' = config_file
          /\ ssh_config' = ssh_config
          /\ ssh_dir' = ssh_dir]_vars

----------------------------------------------------------------------------
(* Defaults in the document under concurrent invocations *)

\* the names flagged as default in the persisted document
PersistedDefaults ==
    IF config_file.exists
    THEN {k \in DOMAIN config_file.accounts : config_file.accounts[k].is_default}
    ELSE {}

\* C38: under every interleaving of concurrent invocations that each load the
\* store and run add, remove or set_default, from a document with at most one
\* default, the persisted document never holds two accounts with is_default
\* true: each save writes the whole store of one invocation.
C38_OneDefaultPersisted ==
    /\ Cardinality(PersistedDefaults) <= 1
    /\ (last.op \in {"add_account", "remove_account", "set_default"} /\ last.result = "ok") =>
          config_file = SaveDoc(procs[last.proc].accounts)

\* C38's case: both invocations loaded the document before either saved; one
\* made a its default and the other b; the document holds one of the two
C38_Witness ==
    /\ procs[1].pc = "done" /\ procs[2].pc = "done"
    /\ procs[1].result = "ok" /\ procs[2].result = "ok"
    /\ \E i \in 1..Len(procs[1].accounts) :
          procs[1].accounts[i].key = "a" /\ procs[1].accounts[i].acct.is_default
    /\ \E i \in 1..Len(procs[2].accounts) :
          procs[2].accounts[i].key = "b" /\ procs[2].accounts[i].acct.is_default
    /\ "b" \notin Keys(procs[1].accounts) /\ "a" \notin Keys(procs[2].accounts)
    /\ "y" \in Persisted
    /\ Cardinality(PersistedDefaults) = 1

----------------------------------------------------------------------------
(* The store under update *)

\* C39: after any sequence of add, remove, set_default and update calls at
\* most one account has is_default true and every record is stored under the
\* key that is its own name -- after update too, whatever field it is given.
C39_OneDefaultAndKeyIsName ==
    /\ DefaultCount(accounts) <= 1
    /\ \A i \in 1..Len(accounts) : accounts[i].acct.name = accounts[i].key

====
